---- MODULE Spec2Model ----
(***************************************************************************)
(* mailbox-api: the sender-domain pattern matcher, the authorizer-context  *)
(* resolver (authenticate), the role predicates, the mailbox access check  *)
(* and the admin handlers that write the users and whitelisted_senders     *)
(* tables.                                                                 *)
(*                                                                         *)
(* JavaScript values are modelled as follows.  A string that the code only *)
(* compares or passes on is a TLA+ string; `undefined` is the string       *)
(* Undefined, so that every field of a record has one type.  A string      *)
(* whose characters the code inspects (a domain, a pattern) is a sequence  *)
(* of one-character strings.  The `name` field of the authorizer context   *)
(* is copied through by authenticate exactly like `email` and is left out. *)
(***************************************************************************)
EXTENDS Integers, Sequences, FiniteSets, TLC

VARIABLES match, authCall, accessCall, whitelistCall, roleCall, guardCall, gatewayCall,
          users, whitelisted_senders, audit_log, nextId, last,
          user_mailboxes, mailboxes, email_messages, whitelisted_recipients,
          user_forwarding_rules, outbox,
          issued, pending, cr

\* The tokens the login handlers issued, the createUser requests in
\* progress, and the SES receipt-rule custom resource.
opsVars == <<issued, pending, cr>>

\* The calls of the functions that are examined one call at a time.
callVars ==
  <<match, authCall, accessCall, whitelistCall, roleCall, guardCall, gatewayCall>>

\* The tables the admin handlers write, and the last HTTP response.
adminVars == <<users, whitelisted_senders, audit_log, nextId, last>>

\* The tables of the mailbox handlers and the mail handed to SES.
mailboxVars ==
  <<user_mailboxes, mailboxes, email_messages, whitelisted_recipients,
    user_forwarding_rules, outbox>>

vars == <<callVars, adminVars, mailboxVars, opsVars>>

(***************************************************************************)
(* Strings as sequences of characters.                                     *)
(***************************************************************************)

\* Longest sender domain and longest whitelist pattern that are enumerated.
MaxDomainLen == 3
MaxPatternLen == 3

\* One lower-case letter, its upper-case form, the label separator and the
\* wildcard.
Chars == {"a", "A", ".", "*"}

Strs(n) == UNION {[1..k -> Chars] : k \in 0..n}

\* String.prototype.toLowerCase, character by character.
toLowerChar(c) == IF c = "A" THEN "a" ELSE c

toLowerCase(s) == [i \in 1..Len(s) |-> toLowerChar(s[i])]

\* String.prototype.toUpperCase (used to state case-insensitivity).
toUpperChar(c) == IF c = "a" THEN "A" ELSE c

toUpperCase(s) == [i \in 1..Len(s) |-> toUpperChar(s[i])]

\* String.prototype.startsWith
startsWith(s, prefix) ==
  /\ Len(prefix) <= Len(s)
  /\ SubSeq(s, 1, Len(prefix)) = prefix

\* String.prototype.endsWith
endsWith(s, suffix) ==
  /\ Len(suffix) <= Len(s)
  /\ SubSeq(s, Len(s) - Len(suffix) + 1, Len(s)) = suffix

\* String.prototype.substring(start), start counted from 0.
substring(s, start) == SubSeq(s, start + 1, Len(s))

(***************************************************************************)
(* utils/validation: matchesDomainPattern                                  *)
(***************************************************************************)

\* Mutant: the subdomain wildcard compares against the base domain without
\* the separating dot.
matchesDomainPattern_noDot(senderDomain, whitelistPattern) ==
  LET sender == toLowerCase(senderDomain)
      pattern == toLowerCase(whitelistPattern)
  IN IF startsWith(pattern, <<"*", ".">>)
       THEN LET baseDomain == substring(pattern, 2)
            IN endsWith(sender, baseDomain) /\ sender # baseDomain
       ELSE IF startsWith(pattern, <<"*">>)
         THEN endsWith(sender, substring(pattern, 1))
         ELSE sender = pattern

\* Mutant: the prefix wildcard requires a proper prefix before the suffix.
matchesDomainPattern_properPrefix(senderDomain, whitelistPattern) ==
  LET sender == toLowerCase(senderDomain)
      pattern == toLowerCase(whitelistPattern)
  IN IF startsWith(pattern, <<"*", ".">>)
       THEN LET baseDomain == substring(pattern, 2)
            IN endsWith(sender, <<".">> \o baseDomain) /\ sender # baseDomain
       ELSE IF startsWith(pattern, <<"*">>)
         THEN LET suffix == substring(pattern, 1)
              IN endsWith(sender, suffix) /\ sender # suffix
         ELSE sender = pattern

\* Mutant: the whitelist pattern is not lower-cased.
matchesDomainPattern_caseSensitive(senderDomain, whitelistPattern) ==
  LET sender == toLowerCase(senderDomain)
      pattern == whitelistPattern
  IN IF startsWith(pattern, <<"*", ".">>)
       THEN LET baseDomain == substring(pattern, 2)
            IN endsWith(sender, <<".">> \o baseDomain) /\ sender # baseDomain
       ELSE IF startsWith(pattern, <<"*">>)
         THEN endsWith(sender, substring(pattern, 1))
         ELSE sender = pattern

\* Mutant: an empty sender domain is rejected before any pattern is tried.
matchesDomainPattern_rejectEmpty(senderDomain, whitelistPattern) ==
  LET sender == toLowerCase(senderDomain)
      pattern == toLowerCase(whitelistPattern)
  IN IF sender = <<>>
       THEN FALSE
       ELSE IF startsWith(pattern, <<"*", ".">>)
         THEN LET baseDomain == substring(pattern, 2)
              IN endsWith(sender, <<".">> \o baseDomain) /\ sender # baseDomain
         ELSE IF startsWith(pattern, <<"*">>)
           THEN endsWith(sender, substring(pattern, 1))
           ELSE sender = pattern

matchesDomainPattern(senderDomain, whitelistPattern) ==
  LET sender == toLowerCase(senderDomain)
      pattern == toLowerCase(whitelistPattern)
  IN IF startsWith(pattern, <<"*", ".">>)
       THEN LET baseDomain == substring(pattern, 2)
            IN endsWith(sender, <<".">> \o baseDomain) /\ sender # baseDomain
       ELSE IF startsWith(pattern, <<"*">>)
         THEN LET suffix == substring(pattern, 1)
              IN endsWith(sender, suffix)
         ELSE sender = pattern

\* The call of matchesDomainPattern that has not been made yet.
MatchIdle ==
  [senderDomain |-> <<>>, whitelistPattern |-> <<>>, called |-> FALSE, result |-> FALSE]

MatchInputs ==
  {[senderDomain |-> d, whitelistPattern |-> p, called |-> FALSE, result |-> FALSE] :
     d \in Strs(MaxDomainLen), p \in Strs(MaxPatternLen)}

\* One call matchesDomainPattern(senderDomain, whitelistPattern).
MatchCall ==
  /\ ~match.called
  /\ match' = [match EXCEPT !.called = TRUE,
                            !.result = matchesDomainPattern(match.senderDomain,
                                                            match.whitelistPattern)]
  /\ UNCHANGED <<authCall, accessCall, whitelistCall, roleCall, guardCall, gatewayCall>>
  /\ UNCHANGED <<adminVars, mailboxVars, opsVars>>

(***************************************************************************)
(* String.prototype.split and the orders in which a store may return rows. *)
(***************************************************************************)

\* Index of the first occurrence of sep in s at or after position i, or 0.
RECURSIVE indexOf(_, _, _)
indexOf(s, sep, i) ==
  IF i > Len(s) THEN 0
  ELSE IF s[i] = sep THEN i
  ELSE indexOf(s, sep, i + 1)

\* String.prototype.split with a one-character separator: the pieces between
\* the separators, in order.
RECURSIVE split(_, _)
split(s, sep) ==
  LET i == indexOf(s, sep, 1)
  IN IF i = 0 THEN <<s>>
     ELSE <<SubSeq(s, 1, i - 1)>> \o split(SubSeq(s, i + 1, Len(s)), sep)

\* Every sequence that lists the elements of S once each.
RECURSIVE SeqsOf(_)
SeqsOf(S) ==
  IF S = {} THEN {<<>>}
  ELSE UNION {{<<x>> \o t : t \in SeqsOf(S \ {x})} : x \in S}

(***************************************************************************)
(* JavaScript values of the authorizer context and of the headers.         *)
(***************************************************************************)

\* The value `undefined` of an absent field.
Undefined == "<undefined>"

\* JavaScript truthiness of a string-or-undefined value.
Truthy(v) == v # Undefined /\ v # ""

\* JavaScript a || b.
Or(a, b) == IF Truthy(a) THEN a ELSE b

\* parseInt(s, 10) on the user ids that are enumerated; the number is kept as
\* its decimal text and NaN as "NaN".
parseInt(s) ==
  CASE s = "0" -> "0"
    [] s = "7" -> "7"
    [] OTHER -> "NaN"

Roles == {"SYSTEM_ADMIN", "TEAM_MEMBER", "CLIENT_USER"}

UserIdValues == {Undefined, "", "0", "7", "abc"}
RoleValues == {Undefined, ""} \cup Roles
ProviderValues == {Undefined, "local", "entra"}
EmailValues == {Undefined, "", "client@example.com"}
EntraOidValues == {Undefined, "", "oid-1"}
EntraIdValues == {Undefined, "oid-2"}
PrincipalIdValues == {Undefined, "principal-3"}
HeaderValues == {Undefined, "Bearer abc", "Bearer DEV_TOKEN_BYPASS"}
Environments == {"local", "prod"}

\* authHeader.includes('DEV_TOKEN_BYPASS') on the header values enumerated.
includesDevToken(header) == header \in {"Bearer DEV_TOKEN_BYPASS", "DEV_TOKEN_BYPASS"}

\* event.requestContext.authorizer, when present.
AuthorizerContexts ==
  [userId : UserIdValues, email : EmailValues, role : RoleValues,
   authProvider : ProviderValues, entraOid : EntraOidValues,
   entraId : EntraIdValues, principalId : PrincipalIdValues, roles : {Undefined}]

EmptyContext ==
  [userId |-> Undefined, email |-> Undefined, role |-> Undefined,
   authProvider |-> Undefined, entraOid |-> Undefined, entraId |-> Undefined,
   principalId |-> Undefined, roles |-> Undefined]

\* The Lambda event: the authorizer context (or none) and the two spellings
\* of the Authorization header.
Events ==
  [hasAuthorizer : {TRUE}, authorizer : AuthorizerContexts,
   Authorization : HeaderValues, authorization : HeaderValues]
  \cup
  [hasAuthorizer : {FALSE}, authorizer : {EmptyContext},
   Authorization : HeaderValues, authorization : HeaderValues]

(***************************************************************************)
(* utils/types: UserContext.  `role` is the field of the hybrid format,    *)
(* `roles` the array of the earlier format; rolesDefined says whether the  *)
(* object has a `roles` property at all.                                   *)
(***************************************************************************)

NoUser ==
  [userId |-> Undefined, email |-> Undefined, role |-> Undefined,
   authProvider |-> Undefined, entraOid |-> Undefined, entraId |-> Undefined,
   rolesDefined |-> FALSE, roles |-> {}]

(***************************************************************************)
(* middleware/auth: authenticate                                           *)
(***************************************************************************)

Returned(via, user) ==
  [outcome |-> "return", via |-> via, message |-> "", user |-> user]

Thrown(message) ==
  [outcome |-> "throw", via |-> "none", message |-> message, user |-> NoUser]

\* if (auth.userId && auth.role && auth.authProvider)
isHybridFormat(auth) ==
  Truthy(auth.userId) /\ Truthy(auth.role) /\ Truthy(auth.authProvider)

\* if (auth.entraId || auth.principalId)
isLegacyFormat(auth) == Truthy(auth.entraId) \/ Truthy(auth.principalId)

hybridIdentity(auth) ==
  [userId |-> parseInt(auth.userId), email |-> auth.email, role |-> auth.role,
   authProvider |-> auth.authProvider, entraOid |-> auth.entraOid,
   entraId |-> Or(auth.entraOid, auth.entraId),
   rolesDefined |-> FALSE, roles |-> {}]

\* Mutant: the legacy shim defaults to the least-privileged role.
legacyIdentity_clientUser(auth) ==
  [userId |-> parseInt(Or(auth.userId, "0")), email |-> auth.email,
   role |-> "CLIENT_USER", authProvider |-> "entra",
   entraOid |-> Or(auth.entraId, auth.principalId),
   entraId |-> Or(auth.entraId, auth.principalId),
   rolesDefined |-> FALSE, roles |-> {}]

legacyIdentity(auth) ==
  [userId |-> parseInt(Or(auth.userId, "0")), email |-> auth.email,
   role |-> "SYSTEM_ADMIN", authProvider |-> "entra",
   entraOid |-> Or(auth.entraId, auth.principalId),
   entraId |-> Or(auth.entraId, auth.principalId),
   rolesDefined |-> FALSE, roles |-> {}]

devIdentity ==
  [userId |-> "1", email |-> "matt@submanagementgroup.com", role |-> "SYSTEM_ADMIN",
   authProvider |-> "local", entraOid |-> Undefined, entraId |-> Undefined,
   rolesDefined |-> FALSE, roles |-> {}]

\* Mutant: the bypass marker is honoured in every environment.
isDevBypass_anyEnvironment(event, env) ==
  includesDevToken(Or(event.Authorization, event.authorization))

\* process.env.ENVIRONMENT === 'local' and the Authorization header (either
\* spelling, the capitalised one first) includes DEV_TOKEN_BYPASS.
isDevBypass(event, env) ==
  /\ env = "local"
  /\ includesDevToken(Or(event.Authorization, event.authorization))

\* Mutant: the legacy format is tried before the hybrid format.
authenticate_legacyFirst(event, env) ==
  LET auth == event.authorizer
  IN IF event.hasAuthorizer /\ isLegacyFormat(auth)
       THEN Returned("legacy", legacyIdentity(auth))
       ELSE IF event.hasAuthorizer /\ isHybridFormat(auth)
         THEN Returned("hybrid", hybridIdentity(auth))
         ELSE IF isDevBypass(event, env)
           THEN Returned("dev", devIdentity)
           ELSE Thrown("Unauthorized")

\* Mutant: only the hybrid format is accepted from the authorizer.
authenticate_hybridOnly(event, env) ==
  LET auth == event.authorizer
  IN IF event.hasAuthorizer /\ isHybridFormat(auth)
       THEN Returned("hybrid", hybridIdentity(auth))
       ELSE IF isDevBypass(event, env)
         THEN Returned("dev", devIdentity)
         ELSE Thrown("Unauthorized")

\* auth.ts authenticate: hybrid context, legacy context, dev bypass, else
\* Error('Unauthorized').
authenticate(event, env) ==
  LET auth == event.authorizer
  IN IF event.hasAuthorizer /\ isHybridFormat(auth)
       THEN Returned("hybrid", hybridIdentity(auth))
       ELSE IF event.hasAuthorizer /\ isLegacyFormat(auth)
         THEN Returned("legacy", legacyIdentity(auth))
         ELSE IF isDevBypass(event, env)
           THEN Returned("dev", devIdentity)
           ELSE Thrown("Unauthorized")

NoEvent ==
  [hasAuthorizer |-> FALSE, authorizer |-> EmptyContext,
   Authorization |-> Undefined, authorization |-> Undefined]

\* The deprecated `roles` field of the authorizer context: a JSON array of
\* role names, and JSON.parse of it.
RolesJson(r) ==
  CASE r = "SYSTEM_ADMIN" -> "[\"SYSTEM_ADMIN\"]"
    [] r = "TEAM_MEMBER" -> "[\"TEAM_MEMBER\"]"
    [] OTHER -> "[\"CLIENT_USER\"]"

JSONparse(text) ==
  CASE text = "[\"SYSTEM_ADMIN\"]" -> {"SYSTEM_ADMIN"}
    [] text = "[\"TEAM_MEMBER\"]" -> {"TEAM_MEMBER"}
    [] OTHER -> {"CLIENT_USER"}

rolesIdentity(entraId, email, roles) ==
  [userId |-> Undefined, email |-> email, role |-> Undefined,
   authProvider |-> Undefined, entraOid |-> Undefined, entraId |-> entraId,
   rolesDefined |-> TRUE, roles |-> roles]

\* tokenService validateToken and extractUserContext: the placeholder accepts
\* every token and answers the same claims.
extractUserContext == rolesIdentity("placeholder-user-id", "dev@example.com", {"SYSTEM_ADMIN"})

\* The earlier authenticate of auth.ts, which answers an identity with a
\* `roles` array: authorize.ts and mailboxAccess.ts read that array.
authenticate_rolesFormat(event, env) ==
  LET auth == event.authorizer
      authHeader == Or(event.Authorization, event.authorization)
  IN IF event.hasAuthorizer
       THEN Returned("roles",
                     rolesIdentity(Or(auth.entraId, auth.principalId), auth.email,
                                   IF Truthy(auth.roles) THEN JSONparse(auth.roles) ELSE {}))
     ELSE IF ~Truthy(authHeader) THEN Thrown("No authorization header")
     ELSE IF authHeader = "Bearer DEV_TOKEN_BYPASS" /\ env = "local"
       THEN Returned("dev", rolesIdentity("dev-user-id", "matt@submanagementgroup.com",
                                          {"SYSTEM_ADMIN"}))
     ELSE Returned("token", extractUserContext)

\* The call of authenticate that has not been made yet.
AuthIdle ==
  [event |-> NoEvent, env |-> "prod", called |-> FALSE, result |-> Thrown("")]

AuthInputs ==
  {[event |-> e, env |-> env, called |-> FALSE, result |-> Thrown("")] :
     e \in Events, env \in Environments}

\* One call authenticate(event) under process.env.ENVIRONMENT = env.
AuthenticateCall ==
  /\ ~authCall.called
  /\ authCall' = [authCall EXCEPT !.called = TRUE,
                                  !.result = authenticate(authCall.event, authCall.env)]
  /\ UNCHANGED <<match, accessCall, whitelistCall, roleCall, guardCall, gatewayCall>>
  /\ UNCHANGED <<adminVars, mailboxVars, opsVars>>

(***************************************************************************)
(* The JWT authorizer Lambda and the API Gateway token authorizer in front *)
(* of the handlers.  A bearer token is described by what its verification  *)
(* yields: a local token by whether jwt.verify under JWT_SECRET accepts it *)
(* and by its payload, an Entra token by whether verification against the  *)
(* tenant's JWKS accepts it and by its claims.                             *)
(***************************************************************************)

NoPayload ==
  [userId |-> Undefined, email |-> Undefined, role |-> Undefined,
   authProvider |-> Undefined, oid |-> Undefined, preferred_username |-> Undefined]

\* Tokens signed by generateToken: the payload is a TokenPayload.
LocalTokens ==
  {[present |-> TRUE, kind |-> "local", verifies |-> v,
    payload |-> [NoPayload EXCEPT !.userId = id, !.email = "client@example.com",
                                  !.role = r, !.authProvider = ap]] :
     v \in BOOLEAN, id \in {"1", "7"}, r \in Roles, ap \in {"local", "entra"}}

\* Tokens issued by Azure Entra: oid, email and preferred_username are
\* optional claims.
EntraTokens ==
  {[present |-> TRUE, kind |-> "entra", verifies |-> v,
    payload |-> [NoPayload EXCEPT !.oid = oid, !.email = em, !.preferred_username = pu]] :
     v \in BOOLEAN, oid \in {Undefined, "", "oid-1"},
     em \in {Undefined, "ops@example.com"}, pu \in {Undefined, "ops"}}

\* No Authorization token at all.
NoToken == [present |-> FALSE, kind |-> "none", verifies |-> FALSE, payload |-> NoPayload]

Tokens == LocalTokens \cup EntraTokens \cup {NoToken}

Policy(principalId, effect, context) ==
  [principalId |-> principalId, effect |-> effect, context |-> context]

DenyPolicy == Policy("unauthorized", "Deny", EmptyContext)

\* The environment of the authorizer Lambda: whether JWT_SECRET is set, and
\* whether ENTRA_CLIENT_ID and ENTRA_AUTHORITY are.
AuthorizerConfigs == [jwtSecret : BOOLEAN, entra : BOOLEAN]

\* verifyToken reading the payload without checking the signature.
verifyToken_decodeOnly(token, config) ==
  IF ~config.jwtSecret THEN "throw"
  ELSE IF token.kind = "local" THEN "return"
  ELSE "throw"

\* jwtService verifyToken: throws when JWT_SECRET is unset and when
\* jwt.verify under the secret rejects the token.
verifyToken(token, config) ==
  IF ~config.jwtSecret THEN "throw"
  ELSE IF token.kind = "local" /\ token.verifies THEN "return"
  ELSE "throw"

\* verifyEntraToken: throws when the Entra configuration is missing, when
\* the token names no signing key of the tenant, and when jwt.verify under
\* that key rejects it.
verifyEntraToken(token, config) ==
  IF ~config.entra THEN "throw"
  ELSE IF token.kind = "entra" /\ token.verifies THEN "return"
  ELSE "throw"

\* The authorizer handler: local verification first, Entra verification when
\* it fails, a Deny policy when both fail or no token is given.  The context
\* values are the strings API Gateway hands on.
authorizerHandler(token, config) ==
  LET p == token.payload
  IN IF ~token.present THEN DenyPolicy
     ELSE IF verifyToken(token, config) = "return"
       THEN Policy(p.userId, "Allow",
                   [EmptyContext EXCEPT !.userId = p.userId, !.email = p.email,
                                        !.role = p.role, !.authProvider = p.authProvider])
     ELSE IF verifyEntraToken(token, config) = "return"
       THEN Policy(Or(p.oid, Or(p.email, "unknown")), "Allow",
                   [EmptyContext EXCEPT !.entraOid = Or(p.oid, ""),
                                        !.email = Or(p.email, Or(p.preferred_username, "")),
                                        !.authProvider = "entra"])
     ELSE DenyPolicy

\* The event a handler receives behind the token authorizer: API Gateway
\* puts the policy's context, together with its principalId, into
\* event.requestContext.authorizer.
gatewayEvent(policy) ==
  [hasAuthorizer |-> TRUE,
   authorizer |-> [policy.context EXCEPT !.principalId = policy.principalId],
   Authorization |-> "Bearer abc", authorization |-> Undefined]

GatewayIdle ==
  [token |-> NoToken, config |-> [jwtSecret |-> TRUE, entra |-> TRUE], env |-> "prod",
   stage |-> "request", policy |-> DenyPolicy,
   result |-> Thrown("")]

GatewayInputs ==
  {[token |-> t, config |-> c, env |-> env, stage |-> "request", policy |-> DenyPolicy,
    result |-> Thrown("")] : t \in Tokens, c \in AuthorizerConfigs, env \in Environments}

\* API Gateway calls the authorizer with the request's token.
AuthorizerCall ==
  /\ gatewayCall.stage = "request"
  /\ LET policy == authorizerHandler(gatewayCall.token, gatewayCall.config)
     IN gatewayCall' =
          [gatewayCall EXCEPT !.policy = policy,
                              !.stage = IF policy.effect = "Allow" THEN "allowed"
                                        ELSE "denied"]
  /\ UNCHANGED <<match, authCall, accessCall, whitelistCall, roleCall, guardCall>>
  /\ UNCHANGED <<adminVars, mailboxVars, opsVars>>

\* On an Allow policy the handler runs and calls authenticate(event).
HandlerAuthenticates ==
  /\ gatewayCall.stage = "allowed"
  /\ gatewayCall' =
       [gatewayCall EXCEPT !.stage = "handled",
                           !.result = authenticate(gatewayEvent(gatewayCall.policy),
                                                   gatewayCall.env)]
  /\ UNCHANGED <<match, authCall, accessCall, whitelistCall, roleCall, guardCall>>
  /\ UNCHANGED <<adminVars, mailboxVars, opsVars>>

(***************************************************************************)
(* middleware/auth: the role predicates of the hybrid format               *)
(***************************************************************************)

\* Mutant: only SYSTEM_ADMIN counts as admin.
isAdmin_systemAdminOnly(user) == user.role = "SYSTEM_ADMIN"

\* auth.ts isAdmin: user.role === SYSTEM_ADMIN || user.role === TEAM_MEMBER
isAdmin(user) == user.role = "SYSTEM_ADMIN" \/ user.role = "TEAM_MEMBER"

\* Mutant: TEAM_MEMBER counts as system admin.
isSystemAdmin_adminTier(user) == user.role = "SYSTEM_ADMIN" \/ user.role = "TEAM_MEMBER"

\* auth.ts isSystemAdmin: user.role === SYSTEM_ADMIN
isSystemAdmin(user) == user.role = "SYSTEM_ADMIN"

\* auth.ts requireAdmin: the message of the error it throws, or "ok".
requireAdmin(user) == IF isAdmin(user) THEN "ok" ELSE "Admin access required"

\* auth.ts requireSystemAdmin: the message of the error it throws, or "ok".
requireSystemAdmin(user) ==
  IF isSystemAdmin(user) THEN "ok" ELSE "System admin access required"

\* Identities of the declared UserContext type: role is one of the three
\* UserRole values, the other fields vary.
RoleUsers ==
  [userId : {"0", "7"}, email : {Undefined, "client@example.com"}, role : Roles,
   authProvider : {"local", "entra"}, entraOid : {Undefined},
   entraId : {Undefined, "u1"}, rolesDefined : {FALSE}, roles : {{}}]

RoleIdle == [user |-> NoUser, op |-> "none", result |-> ""]

RoleInputs == {[user |-> u, op |-> "none", result |-> ""] : u \in RoleUsers}

BoolText(b) == IF b THEN "true" ELSE "false"

RoleCallDone(op, result) ==
  /\ roleCall.op = "none"
  /\ roleCall' = [roleCall EXCEPT !.op = op, !.result = result]
  /\ UNCHANGED <<match, authCall, accessCall, whitelistCall, guardCall, gatewayCall>>
  /\ UNCHANGED <<adminVars, mailboxVars, opsVars>>

\* One call of each role predicate and guard of auth.ts.
IsAdminCall == RoleCallDone("isAdmin", BoolText(isAdmin(roleCall.user)))

IsSystemAdminCall == RoleCallDone("isSystemAdmin", BoolText(isSystemAdmin(roleCall.user)))

RequireAdminCall == RoleCallDone("requireAdmin", requireAdmin(roleCall.user))

RequireSystemAdminCall ==
  RoleCallDone("requireSystemAdmin", requireSystemAdmin(roleCall.user))

(***************************************************************************)
(* middleware/authorize: the role predicates over the `roles` array.       *)
(* Reading user.roles.includes on an object without `roles` raises a       *)
(* TypeError; the outcome is "true", "false" or "TypeError".               *)
(***************************************************************************)

authorize_isSystemAdmin(user) ==
  IF ~user.rolesDefined THEN "TypeError"
  ELSE IF "SYSTEM_ADMIN" \in user.roles THEN "true" ELSE "false"

(***************************************************************************)
(* middleware/mailboxAccess: verifyMailboxAccess                           *)
(***************************************************************************)

\* Largest mailbox id that is enumerated.
MaxMailboxId == 2

MailboxIds == 1..MaxMailboxId

\* External subject ids held in user_mailboxes.entra_user_id.
SubjectIds == {"u1", "u2"}

\* How the ownership store answers a query: with rows, with a rejected
\* promise, or not at all.
StoreModes == {"ok", "fail", "hang"}

AccessReturn(value, queried) ==
  [outcome |-> "return", value |-> value, error |-> "", queried |-> queried]

AccessThrow(error, queried) ==
  [outcome |-> "throw", value |-> FALSE, error |-> error, queried |-> queried]

\* The awaited promise never settles: the function neither returns nor throws.
AccessPending ==
  [outcome |-> "pending", value |-> FALSE, error |-> "", queried |-> TRUE]

\* SELECT id FROM user_mailboxes WHERE entra_user_id = ? AND mailbox_id = ?
\* (an undefined parameter is sent as NULL, which equals no entra_user_id).
mappingRows(user, mailboxId, table) ==
  {row \in table :
     /\ user.entraId # Undefined
     /\ row.entra_user_id = user.entraId
     /\ row.mailbox_id = mailboxId}

\* Mutant: a rejected store query is caught and read as "no mapping".
verifyMailboxAccess_failClosed(user, mailboxId, table, storeMode) ==
  LET admin == authorize_isSystemAdmin(user)
  IN IF admin = "TypeError" THEN AccessThrow("TypeError", FALSE)
     ELSE IF admin = "true" THEN AccessReturn(TRUE, FALSE)
     ELSE IF storeMode = "fail" THEN AccessReturn(FALSE, TRUE)
     ELSE IF storeMode = "hang" THEN AccessPending
     ELSE AccessReturn(mappingRows(user, mailboxId, table) # {}, TRUE)

\* mailboxAccess.ts verifyMailboxAccess: admin bypass, then the mapping query.
verifyMailboxAccess(user, mailboxId, table, storeMode) ==
  LET admin == authorize_isSystemAdmin(user)
  IN IF admin = "TypeError" THEN AccessThrow("TypeError", FALSE)
     ELSE IF admin = "true" THEN AccessReturn(TRUE, FALSE)
     ELSE IF storeMode = "fail" THEN AccessThrow("StoreError", TRUE)
     ELSE IF storeMode = "hang" THEN AccessPending
     ELSE AccessReturn(mappingRows(user, mailboxId, table) # {}, TRUE)

\* Identities in the hybrid format, as authenticate returns them.
HybridUsers ==
  [userId : {"7"}, email : {"client@example.com"}, role : Roles,
   authProvider : {"local", "entra"}, entraOid : {Undefined},
   entraId : {Undefined} \cup SubjectIds, rolesDefined : {FALSE}, roles : {{}}]

\* Identities in the earlier format, which carry a `roles` array.
RolesArrayUsers ==
  [userId : {Undefined}, email : {"client@example.com"}, role : {Undefined},
   authProvider : {Undefined}, entraOid : {Undefined},
   entraId : SubjectIds, rolesDefined : {TRUE}, roles : SUBSET Roles]

UserContexts == HybridUsers \cup RolesArrayUsers

OwnershipRows == [entra_user_id : SubjectIds, mailbox_id : MailboxIds]

AccessIdle ==
  [user |-> NoUser, mailboxId |-> 1, user_mailboxes |-> {}, storeMode |-> "ok",
   called |-> FALSE, result |-> AccessReturn(FALSE, FALSE)]

AccessInputs ==
  {[user |-> u, mailboxId |-> m, user_mailboxes |-> t, storeMode |-> sm,
    called |-> FALSE, result |-> AccessReturn(FALSE, FALSE)] :
     u \in UserContexts, m \in MailboxIds, t \in SUBSET OwnershipRows,
     sm \in StoreModes}

\* One call verifyMailboxAccess(user, mailboxId).
VerifyMailboxAccessCall ==
  /\ ~accessCall.called
  /\ accessCall' =
       [accessCall EXCEPT !.called = TRUE,
                          !.result = verifyMailboxAccess(accessCall.user,
                                                         accessCall.mailboxId,
                                                         accessCall.user_mailboxes,
                                                         accessCall.storeMode)]
  /\ UNCHANGED <<match, authCall, whitelistCall, roleCall, guardCall, gatewayCall>>
  /\ UNCHANGED <<adminVars, mailboxVars, opsVars>>

(***************************************************************************)
(* middleware/mailboxAccess: requireMailboxAccess and getUserMailboxIds,   *)
(* called against the tables user_mailboxes and mailboxes.                 *)
(***************************************************************************)

AccessDenied == "Access denied. You do not have permission to access this mailbox."

GuardReturn(ids) == [outcome |-> "return", error |-> "", ids |-> ids]

GuardThrow(error) == [outcome |-> "throw", error |-> error, ids |-> <<>>]

\* The awaited promise never settles.
GuardPending == [outcome |-> "pending", error |-> "", ids |-> <<>>]

\* Mutant: the guard returns normally whatever the access check says.
requireMailboxAccess_neverDenies(user, mailboxId, table, storeMode) ==
  LET hasAccess == verifyMailboxAccess(user, mailboxId, table, storeMode)
  IN IF hasAccess.outcome = "throw" THEN GuardThrow(hasAccess.error)
     ELSE IF hasAccess.outcome = "pending" THEN GuardPending
     ELSE GuardReturn(<<>>)

requireMailboxAccess(user, mailboxId, table, storeMode) ==
  LET hasAccess == verifyMailboxAccess(user, mailboxId, table, storeMode)
  IN IF hasAccess.outcome = "throw" THEN GuardThrow(hasAccess.error)
     ELSE IF hasAccess.outcome = "pending" THEN GuardPending
     ELSE IF ~hasAccess.value THEN GuardThrow(AccessDenied)
     ELSE GuardReturn(<<>>)

\* Decimal text of a mailbox id and Number() of such a text; ids are single
\* digits within the bounds.
Digits == <<"1", "2", "3", "4", "5", "6", "7", "8", "9">>

Number(piece) == CHOOSE n \in 1..Len(Digits) : <<Digits[n]>> = piece

\* GROUP_CONCAT over the selected ids in the order the store visits them:
\* the ids joined by commas, or NULL (the empty text here) when no row is
\* selected.
RECURSIVE GROUP_CONCAT(_)
GROUP_CONCAT(ids) ==
  IF ids = <<>> THEN <<>>
  ELSE IF Len(ids) = 1 THEN <<Digits[ids[1]]>>
  ELSE <<Digits[ids[1]], ",">> \o GROUP_CONCAT(Tail(ids))

\* result?.ids ? result.ids.split(',').map(Number) : []
idsOrEmpty(text) ==
  IF text = <<>> THEN <<>>
  ELSE LET pieces == split(text, ",")
       IN [i \in 1..Len(pieces) |-> Number(pieces[i])]

\* SELECT ... FROM mailboxes WHERE is_active = 1
activeMailboxIds(table) == {m.id : m \in {r \in table : r.is_active}}

\* SELECT ... FROM user_mailboxes WHERE entra_user_id = ? (an undefined
\* parameter is sent as NULL, which equals no entra_user_id).
assignedMailboxIds(user, table) ==
  {row.mailbox_id : row \in {r \in table : /\ user.entraId # Undefined
                                            /\ r.entra_user_id = user.entraId}}

\* The ids a call of getUserMailboxIds selects from the store.
selectedMailboxIds(user, um, mb) ==
  IF authorize_isSystemAdmin(user) = "true" THEN activeMailboxIds(mb)
  ELSE assignedMailboxIds(user, um)

\* getUserMailboxIds; visited is the selected ids in the order the store
\* visits them.
getUserMailboxIds(user, visited, storeMode) ==
  LET admin == authorize_isSystemAdmin(user)
  IN IF admin = "TypeError" THEN GuardThrow("TypeError")
     ELSE IF storeMode = "fail" THEN GuardThrow("StoreError")
     ELSE IF storeMode = "hang" THEN GuardPending
     ELSE GuardReturn(idsOrEmpty(GROUP_CONCAT(visited)))

\* The mailboxes table: empty, every mailbox active, or mailbox 1 inactive.
MailboxTables ==
  {{}} \cup {{[id |-> i, is_active |-> (i \notin off)] : i \in MailboxIds} :
               off \in {{}, {1}}}

GuardIdle ==
  [user |-> NoUser, mailboxId |-> 1, storeMode |-> "ok", op |-> "none",
   result |-> GuardReturn(<<>>)]

GuardInputs ==
  {[user |-> u, mailboxId |-> m, storeMode |-> sm, op |-> "none",
    result |-> GuardReturn(<<>>)] :
     u \in UserContexts, m \in MailboxIds, sm \in StoreModes}

\* One call requireMailboxAccess(user, mailboxId).
RequireMailboxAccessCall ==
  /\ guardCall.op = "none"
  /\ guardCall' =
       [guardCall EXCEPT !.op = "requireMailboxAccess",
                         !.result = requireMailboxAccess(guardCall.user, guardCall.mailboxId,
                                                         user_mailboxes, guardCall.storeMode)]
  /\ UNCHANGED <<match, authCall, accessCall, whitelistCall, roleCall, gatewayCall>>
  /\ UNCHANGED <<adminVars, mailboxVars, opsVars>>

\* One call getUserMailboxIds(user).
GetUserMailboxIdsCall ==
  /\ guardCall.op = "none"
  /\ \E visited \in SeqsOf(selectedMailboxIds(guardCall.user, user_mailboxes, mailboxes)) :
       guardCall' =
         [guardCall EXCEPT !.op = "getUserMailboxIds",
                           !.result = getUserMailboxIds(guardCall.user, visited,
                                                        guardCall.storeMode)]
  /\ UNCHANGED <<match, authCall, accessCall, whitelistCall, roleCall, gatewayCall>>
  /\ UNCHANGED <<adminVars, mailboxVars, opsVars>>

(***************************************************************************)
(* services/emailService: isSenderWhitelisted                              *)
(***************************************************************************)

\* Longest sender address and most whitelist rows that are enumerated.
MaxEmailLen == 5
MaxPatterns == 2

\* The characters of a sender address.
EmailChars == {"a", ".", "@"}

EmailStrs(n) == UNION {[1..k -> EmailChars] : k \in 0..n}

\* The rows of SELECT domain FROM whitelisted_senders, in the order the
\* store returns them.
WhitelistPatterns == {<<"a">>, <<"*", ".", "a">>, <<"*", "a">>}

WhitelistRows ==
  UNION {SeqsOf(S) : S \in {T \in SUBSET WhitelistPatterns : Cardinality(T) <= MaxPatterns}}

\* for (const pattern of whitelistedPatterns) from row i on: true at the
\* first row that matches, false when the rows are exhausted.
RECURSIVE somePatternMatches(_, _, _)
somePatternMatches(domain, rows, i) ==
  IF i > Len(rows) THEN FALSE
  ELSE IF matchesDomainPattern(domain, rows[i]) THEN TRUE
  ELSE somePatternMatches(domain, rows, i + 1)

WhitelistReturn(value, queried) ==
  [outcome |-> "return", value |-> value, queried |-> queried]

WhitelistThrow == [outcome |-> "throw", value |-> FALSE, queried |-> TRUE]

\* domain = senderEmail.split('@')[1]; a missing or empty piece is falsy and
\* answers false before the store is read.
isSenderWhitelisted(senderEmail, rows, storeMode) ==
  LET pieces == split(senderEmail, "@")
  IN IF Len(pieces) < 2 \/ pieces[2] = <<>> THEN WhitelistReturn(FALSE, FALSE)
     ELSE IF storeMode = "fail" THEN WhitelistThrow
     ELSE WhitelistReturn(somePatternMatches(pieces[2], rows, 1), TRUE)

WhitelistIdle ==
  [senderEmail |-> <<>>, rows |-> <<>>, storeMode |-> "ok", called |-> FALSE,
   result |-> WhitelistReturn(FALSE, FALSE)]

WhitelistInputs ==
  {[senderEmail |-> e, rows |-> r, storeMode |-> sm, called |-> FALSE,
    result |-> WhitelistReturn(FALSE, FALSE)] :
     e \in EmailStrs(MaxEmailLen), r \in WhitelistRows, sm \in {"ok", "fail"}}

\* One call isSenderWhitelisted(senderEmail).
IsSenderWhitelistedCall ==
  /\ ~whitelistCall.called
  /\ whitelistCall' =
       [whitelistCall EXCEPT !.called = TRUE,
                             !.result = isSenderWhitelisted(whitelistCall.senderEmail,
                                                            whitelistCall.rows,
                                                            whitelistCall.storeMode)]
  /\ UNCHANGED <<match, authCall, accessCall, roleCall, guardCall, gatewayCall>>
  /\ UNCHANGED <<adminVars, mailboxVars, opsVars>>

(***************************************************************************)
(* The admin handlers: createUser, addWhitelistSender, deleteWhitelistSender*)
(***************************************************************************)

\* Most rows the users table and the whitelisted_senders table may grow by.
MaxUsers == 1
MaxSenders == 1

\* db/schema.sql, Initial Data: the whitelisted sender domains every
\* database starts with.
InitialSenders ==
  {[id |-> 1, domain |-> <<"c", "a", "n", "a", "d", "a", "c", "o", "u", "n", "c", "i",
                           "l", ".", "c", "a">>],
   [id |-> 2, domain |-> <<"c", "c", "a", ".", "g", "c", ".", "c", "a">>],
   [id |-> 3, domain |-> <<"g", "c", ".", "c", "a">>]}

\* authorize.ts requireAdmin: requires isSystemAdmin over the roles array.
authorize_requireAdmin(user) ==
  LET admin == authorize_isSystemAdmin(user)
  IN IF admin = "TypeError" THEN "TypeError"
     ELSE IF admin = "true" THEN "ok"
     ELSE "Access denied. Admin privileges required."

\* Requests that reach the handlers: one hybrid context per role, a legacy
\* context, a local-development request and a request without credentials.
HybridEvent(role, provider) ==
  [hasAuthorizer |-> TRUE,
   authorizer |-> [EmptyContext EXCEPT !.userId = "7", !.role = role,
                                       !.email = "client@example.com",
                                       !.authProvider = provider],
   Authorization |-> "Bearer abc", authorization |-> Undefined]

LegacyEvent ==
  [hasAuthorizer |-> TRUE,
   authorizer |-> [EmptyContext EXCEPT !.entraId = "oid-2", !.principalId = "principal-3"],
   Authorization |-> "Bearer abc", authorization |-> Undefined]

DevEvent == [NoEvent EXCEPT !.Authorization = "Bearer DEV_TOKEN_BYPASS"]

HandlerEvents ==
  {HybridEvent("SYSTEM_ADMIN", "entra"), HybridEvent("TEAM_MEMBER", "entra"),
   HybridEvent("CLIENT_USER", "local"), LegacyEvent, DevEvent, NoEvent}

\* A context in the earlier format, as local-server.ts builds it: the
\* subject id, the email and the deprecated `roles` field.
RolesEvent(role, entraId) ==
  [hasAuthorizer |-> TRUE,
   authorizer |-> [EmptyContext EXCEPT !.entraId = entraId, !.email = "dev@localhost",
                                       !.roles = RolesJson(role)],
   Authorization |-> "Bearer abc", authorization |-> Undefined]

\* A request, the ENVIRONMENT of the deployment that serves it and the
\* authenticate of auth.ts that resolves it: the hybrid one, or the earlier
\* one that authorize.ts and mailboxAccess.ts are written against.  Only the
\* local-development request is served under both environments.
HandlerRequests ==
  {[event |-> e, env |-> "prod", format |-> "hybrid"] : e \in HandlerEvents}
  \cup {[event |-> DevEvent, env |-> "local", format |-> "hybrid"]}

\* Requests to the whitelist handlers: the hybrid ones, and one from a system
\* admin and one from a client user under the earlier authenticate.
WhitelistRequests ==
  HandlerRequests
  \cup {[event |-> RolesEvent(r, "u2"), env |-> "prod", format |-> "roles"] :
          r \in {"SYSTEM_ADMIN", "CLIENT_USER"}}

\* authenticate(event) as the deployment that serves the request binds it.
resolve(req) ==
  IF req.format = "roles" THEN authenticate_rolesFormat(req.event, req.env)
  ELSE authenticate(req.event, req.env)

\* Email addresses of a createUser body.
UserEmails == {"Ops@SubManagementGroup.com", "client@example.com"}

\* email.split('@')[1]?.toLowerCase() on the addresses enumerated.
emailDomain(email) ==
  CASE email \in {"Ops@SubManagementGroup.com", "admin@submanagementgroup.com",
                  "new@submanagementgroup.com", "ops@submanagementgroup.com"}
         -> "submanagementgroup.com"
    [] OTHER -> "example.com"

\* getAuthProvider without the rule for the staff roles.
getAuthProvider_domainOnly(email, role) ==
  IF emailDomain(email) = "submanagementgroup.com" THEN "entra" ELSE "local"

\* createUser.ts getAuthProvider
getAuthProvider(email, role) ==
  IF emailDomain(email) = "submanagementgroup.com" THEN "entra"
  ELSE IF role = "SYSTEM_ADMIN" \/ role = "TEAM_MEMBER" THEN "entra"
  ELSE "local"

\* A createUser body: one that createUserSchema rejects, or a valid one.
CreateUserInputs ==
  [valid : {FALSE}, email : {"not-an-email"}, role : {"CLIENT_USER"}]
  \cup [valid : {TRUE}, email : UserEmails, role : Roles]

\* Where, if anywhere, the database rejects a statement of the request.
DbFailures == {"none", "select", "write", "audit"}

\* process.env.FRONTEND_URL is not set in the deployments that are modelled.
FRONTEND_URL == Undefined

ContentTypeOnly == [h \in {"Content-Type"} |-> "application/json"]

NoHeaders == [h \in {} |-> ""]

\* The headers addSecurityHeaders writes before the response's own headers.
securityHeaders(env) ==
  [h \in {"Content-Type", "Access-Control-Allow-Origin", "Access-Control-Allow-Methods",
           "Access-Control-Allow-Headers", "Access-Control-Allow-Credentials",
           "X-Content-Type-Options", "X-Frame-Options", "X-XSS-Protection",
           "Strict-Transport-Security"} |->
     CASE h = "Content-Type" -> "application/json"
       [] h = "Access-Control-Allow-Origin" ->
            IF env = "local" THEN "http://localhost:3000"
            ELSE Or(FRONTEND_URL, "https://mail.dev.submanagementgroup.com")
       [] h = "Access-Control-Allow-Methods" -> "GET, POST, PUT, DELETE, OPTIONS"
       [] h = "Access-Control-Allow-Headers" -> "Content-Type, Authorization"
       [] h = "Access-Control-Allow-Credentials" -> "true"
       [] h = "X-Content-Type-Options" -> "nosniff"
       [] h = "X-Frame-Options" -> "DENY"
       [] h = "X-XSS-Protection" -> "1; mode=block"
       [] OTHER -> "max-age=31536000; includeSubDomains"]

\* An HTTP response; op and caller record which handler answered and for
\* which identity, message is the message of the body.
Response(op, statusCode, message, caller, headers) ==
  [op |-> op, statusCode |-> statusCode, message |-> message, caller |-> caller,
   headers |-> headers]

\* { ...securityHeaders, ...(response.headers || {}) }
addSecurityHeaders(response, env) ==
  LET defaults == securityHeaders(env)
      own == response.headers
  IN [response EXCEPT !.headers =
        [h \in DOMAIN defaults \cup DOMAIN own |->
           IF h \in DOMAIN own THEN own[h] ELSE defaults[h]]]

\* A thrown Error(message) has no statusCode (0 here); an object literal
\* handed to handleError has one.
PlainError(message) == [statusCode |-> 0, message |-> message]

HttpError(statusCode, message) == [statusCode |-> statusCode, message |-> message]

\* statusCode = error.statusCode || 500; message = error.message || ...
handleError(op, error, caller, env) ==
  addSecurityHeaders(
    Response(op, IF error.statusCode = 0 THEN 500 ELSE error.statusCode,
             Or(error.message, "Internal server error"), caller, NoHeaders), env)

successResponse(op, statusCode, caller, env) ==
  addSecurityHeaders(Response(op, statusCode, "", caller, NoHeaders), env)

\* utils/responses errorResponse: an Error carrying the statusCode, through
\* handleError.
errorResponse(op, message, statusCode, caller, env) ==
  handleError(op, HttpError(statusCode, message), caller, env)

\* POST /admin/users
CreateUser(req, input, dbFail) ==
  LET a == resolve(req)
      env == req.env
      user == a.user
      authProvider == getAuthProvider(input.email, input.role)
      userId == nextId.users
      row == [id |-> userId, email |-> input.email,
              password_hash |-> IF authProvider = "local" THEN "bcrypt-hash" ELSE "NULL",
              role |-> input.role, auth_provider |-> authProvider,
              must_change_password |-> (authProvider = "local"),
              is_active |-> TRUE, created_by |-> user.userId,
              entra_oid |-> "NULL", last_login_at |-> "NULL"]
      entry == [actor |-> user.userId, action |-> "USER_CREATED", entity_id |-> userId]
      Unchanged == UNCHANGED <<users, audit_log, nextId>>
  IN /\ UNCHANGED <<callVars, opsVars, mailboxVars, whitelisted_senders>>
     /\ IF a.outcome = "throw"
          THEN last' = errorResponse("createUser", "Authentication required", 401, NoUser, env) /\ Unchanged
        ELSE IF requireAdmin(user) # "ok"
          THEN last' = errorResponse("createUser", "Admin access required", 403, user, env)
               /\ Unchanged
        ELSE IF ~input.valid
          THEN last' = errorResponse("createUser", "ZodError", 400, user, env) /\ Unchanged
        ELSE IF dbFail = "select"
          THEN last' = errorResponse("createUser", "Failed to create user", 500, user, env)
               /\ Unchanged
        ELSE IF \E u \in users : u.email = input.email
          THEN last' = errorResponse("createUser", "User with this email already exists",
                                     409, user, env)
               /\ Unchanged
        ELSE IF dbFail = "write"
          THEN last' = errorResponse("createUser", "Failed to create user", 500, user, env)
               /\ Unchanged
        ELSE /\ nextId.users <= MaxUsers
             /\ users' = users \cup {row}
             /\ nextId' = [nextId EXCEPT !.users = userId + 1]
             /\ IF dbFail = "audit"
                  THEN /\ last' = errorResponse("createUser", "Failed to create user", 500,
                                               user, env)
                       /\ UNCHANGED audit_log
                  ELSE /\ last' = successResponse("createUser", 201, user, env)
                       /\ audit_log' = audit_log \cup {entry}

\* The characters [a-z0-9] and [a-z] of addWhitelistSenderSchema (flag i),
\* over the alphabet Chars.
isAlnum(c) == c \in {"a", "A"}

\* /^(\*\.?)?[a-z0-9][a-z0-9.-]*\.[a-z]{2,}$/i
matchesDomainSchema(s) ==
  LET body == IF startsWith(s, <<"*", ".">>) THEN substring(s, 2)
              ELSE IF startsWith(s, <<"*">>) THEN substring(s, 1)
              ELSE s
  IN /\ Len(body) >= 4
     /\ isAlnum(body[1])
     /\ \E k \in 2..(Len(body) - 2) :
          /\ \A i \in (Len(body) - k + 1)..Len(body) : isAlnum(body[i])
          /\ body[Len(body) - k] = "."
          /\ \A i \in 2..(Len(body) - k - 1) : isAlnum(body[i]) \/ body[i] = "."

\* Domains of an addWhitelistSender body.
SenderDomainInputs ==
  {<<"a", ".", "a", "a">>, <<"*", ".", "a", ".", "A", "a">>, <<"*">>}

\* Most rows logAudit may add to audit_log.
MaxAudit == 1

\* auditLogger logAudit: one row, or none when the insert fails (the error is
\* logged and swallowed).
logAudit(entry, failed) ==
  IF failed THEN UNCHANGED audit_log
  ELSE /\ entry \in audit_log \/ Cardinality(audit_log) < MaxAudit
       /\ audit_log' = audit_log \cup {entry}

\* POST /admin/whitelist/senders
AddWhitelistSender(req, domain, dbFail) ==
  LET a == resolve(req)
      env == req.env
      user == a.user
      id == nextId.whitelisted_senders
      entry == [actor |-> user.entraId, action |-> "ADD_WHITELISTED_SENDER",
                entity_id |-> id]
      Unchanged == UNCHANGED <<whitelisted_senders, audit_log, nextId>>
  IN /\ UNCHANGED <<callVars, opsVars, mailboxVars, users>>
     /\ IF a.outcome = "throw"
          THEN last' = handleError("addWhitelistSender", PlainError(a.message), NoUser, env)
               /\ Unchanged
        ELSE IF authorize_requireAdmin(user) # "ok"
          THEN last' = handleError("addWhitelistSender",
                                   PlainError(authorize_requireAdmin(user)), user, env)
               /\ Unchanged
        ELSE IF ~matchesDomainSchema(domain)
          THEN last' = handleError("addWhitelistSender", PlainError("ZodError"), user, env)
               /\ Unchanged
        ELSE IF dbFail = "write" \/ \E r \in whitelisted_senders : r.domain = domain
          THEN last' = handleError("addWhitelistSender", PlainError("StoreError"), user, env)
               /\ Unchanged
        ELSE /\ id <= Cardinality(InitialSenders) + MaxSenders
             /\ whitelisted_senders' =
                  whitelisted_senders \cup {[id |-> id, domain |-> domain]}
             /\ nextId' = [nextId EXCEPT !.whitelisted_senders = id + 1]
             /\ last' = successResponse("addWhitelistSender", 201, user, env)
             /\ logAudit(entry, dbFail = "audit")

\* DELETE /admin/whitelist/senders/{id}; senderId 0 stands for a missing path
\* parameter.  query() resolves to [rows, fields], so result.affectedRows is
\* undefined and the 404 branch is never taken.
DeleteWhitelistSender(req, senderId, dbFail) ==
  LET a == resolve(req)
      env == req.env
      user == a.user
      entry == [actor |-> user.entraId, action |-> "REMOVE_WHITELISTED_SENDER",
                entity_id |-> senderId]
      Unchanged == UNCHANGED <<whitelisted_senders, audit_log>>
  IN /\ UNCHANGED <<callVars, opsVars, mailboxVars, users, nextId>>
     /\ IF a.outcome = "throw"
          THEN last' = handleError("deleteWhitelistSender", PlainError(a.message), NoUser, env)
               /\ Unchanged
        ELSE IF authorize_requireAdmin(user) # "ok"
          THEN last' = handleError("deleteWhitelistSender",
                                   PlainError(authorize_requireAdmin(user)), user, env)
               /\ Unchanged
        ELSE IF senderId = 0
          THEN last' = Response("deleteWhitelistSender", 400, "Sender ID is required", user,
                                ContentTypeOnly)
               /\ Unchanged
        ELSE IF dbFail = "write"
          THEN last' = handleError("deleteWhitelistSender", PlainError("StoreError"), user, env)
               /\ Unchanged
        ELSE /\ whitelisted_senders' = {r \in whitelisted_senders : r.id # senderId}
             /\ last' = successResponse("deleteWhitelistSender", 200, user, env)
             /\ logAudit(entry, dbFail = "audit")

(***************************************************************************)
(* The mailbox handlers: listMailboxes, getMessages, getMessage,           *)
(* replyToMessage, createForwardingRule.  A path parameter is the number   *)
(* parseInt yields, 0 standing for NaN.                                    *)
(***************************************************************************)

\* Most forwarding rules created and most replies handed to SES.
MaxRules == 1
MaxSent == 1

\* The rows the mailbox tables hold before any request.
InitialAssignments == {[entra_user_id |-> "u1", mailbox_id |-> 1]}

InitialMailboxes == {[id |-> i, is_active |-> TRUE] : i \in MailboxIds}

InitialMessages == {[id |-> 1, mailbox_id |-> 1]}

InitialRecipients == {"ok@example.com"}

\* A hybrid context of a client user whose Entra object id is u1.
ClientEvent ==
  [hasAuthorizer |-> TRUE,
   authorizer |-> [EmptyContext EXCEPT !.userId = "7", !.role = "CLIENT_USER",
                                       !.email = "client@example.com",
                                       !.authProvider = "entra", !.entraOid = "u1"],
   Authorization |-> "Bearer abc", authorization |-> Undefined]

\* Requests to the mailbox handlers: without credentials and from a client
\* user under the hybrid authenticate; without credentials, from the owner of
\* mailbox 1, from another client user and from a system admin under the
\* earlier one.
MailboxRequests ==
  {[event |-> e, env |-> "prod", format |-> "hybrid"] : e \in {NoEvent, ClientEvent}}
  \cup {[event |-> e, env |-> "prod", format |-> "roles"] :
          e \in {NoEvent, RolesEvent("CLIENT_USER", "u1"), RolesEvent("CLIENT_USER", "u2"),
                 RolesEvent("SYSTEM_ADMIN", "u2")}}

MailboxIdParams == 0..MaxMailboxId

MessageIdParams == 0..Cardinality(InitialMessages)

\* What goes wrong while a request is served, if anything: the body or query
\* is rejected by its schema, the user_mailboxes query fails, a later SELECT
\* fails, the INSERT fails, SES rejects the mail, the audit INSERT fails.
Faults == {"none", "invalid", "access", "select", "write", "ses", "audit"}

storeModeOf(fault) == IF fault = "access" THEN "fail" ELSE "ok"

\* The message lookup without the mailbox condition.
findMessage_byIdOnly(messageId, mailboxId, table) ==
  {m \in table : m.id = messageId}

\* queryOne('SELECT * FROM email_messages WHERE id = ? AND mailbox_id = ?')
findMessage(messageId, mailboxId, table) ==
  {m \in table : m.id = messageId /\ m.mailbox_id = mailboxId}

\* GET /mailboxes/{mailboxId}/messages
GetMessages(req, mailboxId, fault) ==
  LET a == resolve(req)
      user == a.user
      env == req.env
      access == requireMailboxAccess(user, mailboxId, user_mailboxes, storeModeOf(fault))
      entry == [actor |-> user.entraId, action |-> "VIEW_MESSAGES", entity_id |-> mailboxId]
      error(e) == last' = handleError("getMessages", e, user, env) /\ UNCHANGED audit_log
  IN /\ UNCHANGED <<callVars, opsVars, mailboxVars, users, whitelisted_senders, nextId>>
     /\ IF a.outcome = "throw" THEN error(PlainError(a.message))
        ELSE IF mailboxId = 0 THEN error(HttpError(400, "Invalid mailbox ID"))
        ELSE IF access.outcome = "throw" THEN error(PlainError(access.error))
        ELSE IF fault = "invalid" THEN error(PlainError("ZodError"))
        ELSE IF fault = "select" THEN error(PlainError("StoreError"))
        ELSE /\ logAudit(entry, fault = "audit")
             /\ last' = successResponse("getMessages", 200, user, env)

\* GET /mailboxes/{mailboxId}/messages/{messageId}
GetMessage(req, mailboxId, messageId, fault) ==
  LET a == resolve(req)
      user == a.user
      env == req.env
      access == requireMailboxAccess(user, mailboxId, user_mailboxes, storeModeOf(fault))
      message == {m \in email_messages : m.id = messageId /\ m.mailbox_id = mailboxId}
      entry == [actor |-> user.entraId, action |-> "VIEW_MESSAGE", entity_id |-> messageId]
      error(e) == last' = handleError("getMessage", e, user, env) /\ UNCHANGED audit_log
  IN /\ UNCHANGED <<callVars, opsVars, mailboxVars, users, whitelisted_senders, nextId>>
     /\ IF a.outcome = "throw" THEN error(PlainError(a.message))
        ELSE IF mailboxId = 0 \/ messageId = 0
          THEN error(HttpError(400, "Invalid mailbox or message ID"))
        ELSE IF access.outcome = "throw" THEN error(PlainError(access.error))
        ELSE IF fault = "select" THEN error(PlainError("StoreError"))
        ELSE IF message = {} THEN error(HttpError(404, "Message not found"))
        ELSE /\ logAudit(entry, fault = "audit")
             /\ last' = successResponse("getMessage", 200, user, env)

\* POST /mailboxes/{mailboxId}/messages/{messageId}/reply
ReplyToMessage(req, mailboxId, messageId, fault) ==
  LET a == resolve(req)
      user == a.user
      env == req.env
      access == requireMailboxAccess(user, mailboxId, user_mailboxes, storeModeOf(fault))
      message == findMessage(messageId, mailboxId, email_messages)
      mailbox == {m \in mailboxes : m.id = mailboxId}
      mail == [from_mailbox |-> mailboxId, in_reply_to |-> messageId]
      entry == [actor |-> user.entraId, action |-> "SEND_REPLY", entity_id |-> messageId]
      error(e) ==
        /\ last' = handleError("replyToMessage", e, user, env)
        /\ UNCHANGED <<audit_log, outbox>>
  IN /\ UNCHANGED <<callVars, opsVars, users, whitelisted_senders, nextId, user_mailboxes, mailboxes,
                    email_messages, whitelisted_recipients, user_forwarding_rules>>
     /\ IF a.outcome = "throw" THEN error(PlainError(a.message))
        ELSE IF mailboxId = 0 \/ messageId = 0
          THEN error(HttpError(400, "Invalid mailbox or message ID"))
        ELSE IF access.outcome = "throw" THEN error(PlainError(access.error))
        ELSE IF fault = "invalid" THEN error(PlainError("ZodError"))
        ELSE IF fault = "select" THEN error(PlainError("StoreError"))
        ELSE IF message = {} THEN error(HttpError(404, "Message not found"))
        ELSE IF mailbox = {} THEN error(HttpError(404, "Mailbox not found"))
        ELSE IF fault = "ses" THEN error(PlainError("SESError"))
        ELSE /\ Len(outbox) < MaxSent
             /\ outbox' = Append(outbox, mail)
             /\ logAudit(entry, fault = "audit")
             /\ last' = successResponse("replyToMessage", 200, user, env)

\* A createForwardingRule body: one that createForwardingRuleSchema rejects
\* is the fault "invalid"; a valid one names a recipient.
RecipientEmails == {"ok@example.com", "other@example.com"}

\* The whitelist lookup without its WHERE clause.
isWhitelisted_anyRow(recipientEmail, table) == table # {}

\* queryOne('SELECT id FROM whitelisted_recipients WHERE email = ?')
isWhitelisted(recipientEmail, table) ==
  {email \in table : email = recipientEmail} # {}

\* POST /mailboxes/{mailboxId}/forwarding
CreateForwardingRule(req, mailboxId, recipientEmail, fault) ==
  LET a == resolve(req)
      user == a.user
      env == req.env
      access == requireMailboxAccess(user, mailboxId, user_mailboxes, storeModeOf(fault))
      ruleId == nextId.user_forwarding_rules
      row == [id |-> ruleId, mailbox_id |-> mailboxId, recipient_email |-> recipientEmail,
              created_by |-> user.entraId]
      entry == [actor |-> user.entraId, action |-> "CREATE_FORWARDING_RULE",
                entity_id |-> ruleId]
      error(e) ==
        /\ last' = handleError("createForwardingRule", e, user, env)
        /\ UNCHANGED <<audit_log, nextId, user_forwarding_rules>>
  IN /\ UNCHANGED <<callVars, opsVars, users, whitelisted_senders, user_mailboxes, mailboxes,
                    email_messages, whitelisted_recipients, outbox>>
     /\ IF a.outcome = "throw" THEN error(PlainError(a.message))
        ELSE IF mailboxId = 0 THEN error(HttpError(400, "Invalid mailbox ID"))
        ELSE IF access.outcome = "throw" THEN error(PlainError(access.error))
        ELSE IF fault = "invalid" THEN error(PlainError("ZodError"))
        ELSE IF fault = "select" THEN error(PlainError("StoreError"))
        ELSE IF ~isWhitelisted(recipientEmail, whitelisted_recipients)
          THEN error(HttpError(403, "Recipient email is not whitelisted. Contact admin to add."))
        ELSE IF fault = "write" THEN error(PlainError("StoreError"))
        ELSE /\ ruleId <= MaxRules
             /\ user_forwarding_rules' = user_forwarding_rules \cup {row}
             /\ nextId' = [nextId EXCEPT !.user_forwarding_rules = ruleId + 1]
             /\ logAudit(entry, fault = "audit")
             /\ last' = successResponse("createForwardingRule", 201, user, env)

\* GET /mailboxes
ListMailboxes(req, fault) ==
  LET a == resolve(req)
      user == a.user
      env == req.env
      entry == [actor |-> user.entraId, action |-> "VIEW_MAILBOX", entity_id |-> 0]
      error(e) == last' = handleError("listMailboxes", e, user, env) /\ UNCHANGED audit_log
  IN /\ UNCHANGED <<callVars, opsVars, mailboxVars, users, whitelisted_senders, nextId>>
     /\ IF a.outcome = "throw" THEN error(PlainError(a.message))
        ELSE \E visited \in SeqsOf(selectedMailboxIds(user, user_mailboxes, mailboxes)) :
               LET mailboxIds == getUserMailboxIds(user, visited, storeModeOf(fault))
               IN IF mailboxIds.outcome = "throw" THEN error(PlainError(mailboxIds.error))
                  ELSE IF mailboxIds.ids = <<>>
                    THEN /\ last' = successResponse("listMailboxes", 200, user, env)
                         /\ UNCHANGED audit_log
                  ELSE IF fault = "select" THEN error(PlainError("StoreError"))
                  ELSE /\ logAudit(entry, fault = "audit")
                       /\ last' = successResponse("listMailboxes", 200, user, env)

(***************************************************************************)
(* authCallback: the Azure Entra OAuth callback, POST /auth/callback.      *)
(***************************************************************************)

MaxSsoUsers == 3

\* A users row.  Columns an INSERT does not name keep their default, NULL.
UserRow(id, email, role, provider, active, oid) ==
  [id |-> id, email |-> email,
   password_hash |-> IF provider = "local" THEN "bcrypt-hash" ELSE "NULL",
   role |-> role, auth_provider |-> provider,
   must_change_password |-> (provider = "local"),
   is_active |-> active, created_by |-> "1",
   entra_oid |-> oid, last_login_at |-> "NULL"]

\* Users tables a deployment can hold before a callback: user 1 is a system
\* admin who has signed in (active or deactivated), or a client user, or
\* was deleted; user 2 is a staff member created by createUser who has not
\* signed in yet (active or deactivated).
InitialUserTables ==
  {first \cup second :
     first \in {{}} \cup
       {{UserRow(1, "admin@submanagementgroup.com", "SYSTEM_ADMIN", "entra", a, "oid-9")} :
          a \in BOOLEAN} \cup
       {{UserRow(1, "client@example.com", "CLIENT_USER", "local", TRUE, "NULL")}},
     second \in {{}} \cup
       {{UserRow(2, "ops@submanagementgroup.com", "TEAM_MEMBER", "entra", a, "NULL")} :
          a \in BOOLEAN}}

\* The callback request after the code exchange: whether the body passes
\* callbackSchema, and the claims of the decoded id token.
SsoInputs ==
  [valid : BOOLEAN, oid : {Undefined, "oid-1"},
   email : {Undefined, "new@submanagementgroup.com", "ops@submanagementgroup.com",
            "guest@example.com"},
   preferred_username : {Undefined, "new@submanagementgroup.com"}]

\* Which awaited call of the callback rejects, if any.
SsoFaults == {"none", "exchange", "select", "write", "login"}

\* database.ts execute: resolves to result.affectedRows, which is 1 for a
\* single-row INSERT whatever id the row was given.
execute_insert(insertId) == 1

\* No tokens returned.
IssuedNone == [tokens |-> FALSE, userId |-> 0, email |-> "", role |-> ""]

\* generateToken(tokenPayload) and the user object of the success response.
Issued(user) ==
  [tokens |-> TRUE, userId |-> user.id, email |-> user.email, role |-> user.role]

\* UPDATE users SET column = value WHERE id = ?
updateUser(table, id, column, value) ==
  {IF u.id = id THEN [u EXCEPT ![column] = value] ELSE u : u \in table}

\* The end of the callback, for the record `user` it settled on; `table` is
\* the users table as the earlier statements of the request left it.
authCallback_finish(user, table, fault) ==
  LET reject(message, code) ==
        /\ users' = table
        /\ issued' = IssuedNone
        /\ last' = errorResponse("authCallback", message, code, NoUser, "prod")
  IN IF ~user.is_active
       THEN reject("Account is inactive. Please contact your administrator.", 403)
     ELSE IF user.auth_provider # "entra"
       THEN reject("This account uses local authentication. Please use the email/password login.", 400)
     ELSE IF fault = "login" THEN reject("Authentication failed", 500)
     ELSE /\ users' = updateUser(table, user.id, "last_login_at", "NOW")
          /\ issued' = Issued(user)
          /\ last' = successResponse("authCallback", 200, NoUser, "prod")

\* POST /auth/callback
AuthCallback(input, fault) ==
  LET email == Or(input.email, input.preferred_username)
      found == {u \in users :
                  \/ u.entra_oid = input.oid
                  \/ (u.email = email /\ u.auth_provider = "entra")}
      row == [UserRow(nextId.users, email, "TEAM_MEMBER", "entra", TRUE, input.oid)
                EXCEPT !.created_by = "NULL"]
      created == users \cup {row}
      userId == execute_insert(row.id)
      fetched == {u \in created : u.id = userId}
      reject(message, code) ==
        /\ issued' = IssuedNone
        /\ last' = errorResponse("authCallback", message, code, NoUser, "prod")
        /\ UNCHANGED <<users, nextId>>
  IN /\ UNCHANGED <<callVars, mailboxVars, whitelisted_senders, audit_log, pending, cr>>
     /\ IF ~input.valid THEN reject("Authorization code is required", 400)
        ELSE IF fault = "exchange" THEN reject("Invalid authorization code", 400)
        ELSE IF ~Truthy(input.oid) THEN reject("Missing user Object ID in token", 400)
        ELSE IF ~Truthy(email) THEN reject("Missing email in user profile", 400)
        ELSE IF fault = "select" THEN reject("Authentication failed", 500)
        ELSE IF found = {}
          THEN IF emailDomain(email) # "submanagementgroup.com"
                 THEN reject("Account not found. Please contact your administrator to create an account.", 404)
               ELSE IF fault = "write" THEN reject("Authentication failed", 500)
               ELSE /\ nextId.users <= MaxSsoUsers
                    /\ nextId' = [nextId EXCEPT !.users = row.id + 1]
                    /\ IF fetched = {}
                         THEN /\ users' = created
                              /\ issued' = IssuedNone
                              /\ last' = errorResponse("authCallback", "Failed to create user",
                                                       500, NoUser, "prod")
                         ELSE \E user \in fetched : authCallback_finish(user, created, fault)
        ELSE /\ UNCHANGED nextId
             /\ \E user \in found :
                  IF user.entra_oid = "NULL"
                    THEN IF fault = "write"
                           THEN /\ issued' = IssuedNone
                                /\ last' = errorResponse("authCallback", "Authentication failed",
                                                         500, NoUser, "prod")
                                /\ UNCHANGED users
                           ELSE authCallback_finish(
                                  [user EXCEPT !.entra_oid = input.oid],
                                  updateUser(users, user.id, "entra_oid", input.oid), fault)
                    ELSE authCallback_finish(user, users, fault)

(***************************************************************************)
(* changePassword, POST /auth/change-password, and passwordService.        *)
(* Passwords are sequences of characters.                                  *)
(***************************************************************************)

MinPasswordLength == 12

MaxPasswordLength == 128

UpperCase ==
  {"A", "B", "C", "D", "E", "F", "G", "H", "I", "J", "K", "L", "M",
   "N", "O", "P", "Q", "R", "S", "T", "U", "V", "W", "X", "Y", "Z"}

LowerCase ==
  {"a", "b", "c", "d", "e", "f", "g", "h", "i", "j", "k", "l", "m",
   "n", "o", "p", "q", "r", "s", "t", "u", "v", "w", "x", "y", "z"}

Digit == {"0", "1", "2", "3", "4", "5", "6", "7", "8", "9"}

\* [!@#$%^&*()_+\-=\[\]{};':"\\|,.<>\/?]
Special ==
  {"!", "@", "#", "$", "%", "^", "&", "*", "(", ")", "_", "+", "-", "=", "[", "]",
   "{", "}", ";", "'", ":", "\"", "\\", "|", ",", ".", "<", ">", "/", "?"}

\* regex.test(password) for a one-character class.
HasCharIn(password, class) == \E i \in 1..Len(password) : password[i] \in class

\* validatePasswordStrength without the rule for a digit.
validatePasswordStrength_noDigitRule(password) ==
  /\ Len(password) >= MinPasswordLength
  /\ Len(password) <= MaxPasswordLength
  /\ HasCharIn(password, UpperCase)
  /\ HasCharIn(password, LowerCase)
  /\ HasCharIn(password, Special)

\* passwordService validatePasswordStrength: the isValid flag.
validatePasswordStrength(password) ==
  IF Len(password) < MinPasswordLength THEN FALSE
  ELSE IF Len(password) > MaxPasswordLength THEN FALSE
  ELSE IF ~HasCharIn(password, UpperCase) THEN FALSE
  ELSE IF ~HasCharIn(password, LowerCase) THEN FALSE
  ELSE IF ~HasCharIn(password, Digit) THEN FALSE
  ELSE IF ~HasCharIn(password, Special) THEN FALSE
  ELSE TRUE

\* bcrypt.hash: the digest is a function of the first 72 bytes of the
\* password, which stand for it here (the salt is left out); the empty
\* sequence is the NULL of the column.
hashPassword(password) ==
  SubSeq(password, 1, IF Len(password) < 72 THEN Len(password) ELSE 72)

\* bcrypt.compare
verifyPassword(password, hash) == hashPassword(password) = hash

\* n copies of the character c.
Fill(n, c) == [i \in 1..n |-> c]

PwCurrent == <<"A", "b", "1", "!">> \o Fill(68, "x")

PwStrong == <<"Z", "y", "9", "#">> \o Fill(8, "x")

\* Passwords of a request: empty, the current one, the current one with a
\* 73rd character, strong ones of 12 and 128 characters, and one failing
\* each rule of validatePasswordStrength.
Passwords ==
  {<<>>, PwCurrent, PwCurrent \o <<"y">>, PwStrong,
   <<"Z", "y", "9", "#">> \o Fill(124, "x"),
   <<"Z", "y", "9", "#">> \o Fill(125, "x"),
   <<"Z", "y", "9", "#">> \o Fill(7, "x"),
   <<"z", "y", "9", "#">> \o Fill(8, "x"),
   <<"Z", "Y", "9", "#">> \o Fill(8, "X"),
   <<"Z", "y", "w", "#">> \o Fill(8, "x"),
   <<"Z", "y", "9", "8">> \o Fill(8, "x")}

ChangePasswordInputs ==
  UNION {[currentPassword : {<<>>, PwCurrent, PwStrong}, newPassword : {n},
          confirmPassword : {n, PwCurrent}] : n \in Passwords}

\* changePasswordSchema
changePasswordSchema(input) ==
  /\ Len(input.currentPassword) >= 1
  /\ Len(input.newPassword) >= 12
  /\ Len(input.confirmPassword) >= 1
  /\ input.newPassword = input.confirmPassword

\* The caller's record before the request: none, a local account created by
\* createUser whose password is PwCurrent, or an SSO account.
InitialPasswordTables ==
  {{},
   {[UserRow(7, "client@example.com", "CLIENT_USER", "local", TRUE, "NULL")
       EXCEPT !.password_hash = hashPassword(PwCurrent)]},
   {[UserRow(7, "client@example.com", "TEAM_MEMBER", "entra", TRUE, "NULL")
       EXCEPT !.password_hash = <<>>]}}

PasswordRequests ==
  {[event |-> e, env |-> "prod", format |-> "hybrid"] :
     e \in {HybridEvent("CLIENT_USER", "local"), HybridEvent("TEAM_MEMBER", "entra"),
            NoEvent}}
  \cup {[event |-> DevEvent, env |-> "local", format |-> "hybrid"]}

\* SELECT id, email, password_hash, auth_provider FROM users WHERE id = ?
usersById(table, userId) == {u \in table : ToString(u.id) = userId}

\* A change-password request as API Gateway hands it to the Lambda, with
\* the statement of it the database will reject, if any.
ChangePasswordCall(req, input, dbFail) ==
  [op |-> "changePassword", req |-> req, input |-> input, dbFail |-> dbFail]

\* The request arrives.
ReceiveChangePassword(req, input, dbFail) ==
  /\ pending = <<>>
  /\ pending' = <<ChangePasswordCall(req, input, dbFail)>>
  /\ UNCHANGED <<callVars, adminVars, mailboxVars, issued, cr>>

\* POST /auth/change-password
ChangePassword(req, input, dbFail) ==
  LET a == resolve(req)
      user == a.user
      env == req.env
      found == usersById(users, user.userId)
      entry == [actor |-> user.userId, action |-> "PASSWORD_CHANGED",
                entity_id |-> user.userId]
      reject(message, code) ==
        /\ last' = errorResponse("changePassword", message, code, user, env)
        /\ UNCHANGED <<users, audit_log>>
  IN /\ pending = <<ChangePasswordCall(req, input, dbFail)>>
     /\ pending' = <<>>
     /\ UNCHANGED <<callVars, issued, cr, mailboxVars, whitelisted_senders, nextId>>
     /\ IF a.outcome = "throw"
          THEN IF a.message = "Unauthorized" THEN reject("Authentication required", 401)
               ELSE reject("Failed to change password", 500)
        ELSE IF ~changePasswordSchema(input) THEN reject("ZodError", 400)
        ELSE IF dbFail = "select" THEN reject("Failed to change password", 500)
        ELSE IF found = {} THEN reject("User not found", 404)
        ELSE \E userRecord \in found :
          IF userRecord.auth_provider # "local"
            THEN reject("Password change is not available for SSO accounts. Please manage your password through your SSO provider.", 400)
          ELSE IF userRecord.password_hash = <<>>
            THEN reject("Password authentication not configured for this account", 500)
          ELSE IF ~verifyPassword(input.currentPassword, userRecord.password_hash)
            THEN reject("Current password is incorrect", 401)
          ELSE IF ~validatePasswordStrength(input.newPassword)
            THEN reject("Invalid password", 400)
          ELSE IF verifyPassword(input.newPassword, userRecord.password_hash)
            THEN reject("New password must be different from current password", 400)
          ELSE IF dbFail = "write" THEN reject("Failed to change password", 500)
          ELSE /\ users' =
                    {IF ToString(u.id) = user.userId
                       THEN [u EXCEPT !.password_hash = hashPassword(input.newPassword),
                                      !.must_change_password = FALSE]
                       ELSE u : u \in users}
               /\ IF dbFail = "audit"
                    THEN /\ last' = errorResponse("changePassword",
                                                  "Failed to change password", 500, user, env)
                         /\ UNCHANGED audit_log
                    ELSE /\ audit_log' = audit_log \cup {entry}
                         /\ last' = successResponse("changePassword", 200, user, env)

(***************************************************************************)
(* lambda/ses-receipt-rule-cr: the CloudFormation custom resource for the  *)
(* SES receipt rule.  `cr` holds the invocation in progress and the rule   *)
(* as SES has it: "absent", or the properties it was written with.         *)
(***************************************************************************)

RequestTypes == {"Create", "Update", "Delete"}

\* ResourceProperties of an event: two versions of the template.
RuleProps == {"v1", "v2"}

\* Which SES command, if any, fails with an error other than
\* RuleDoesNotExistException and AlreadyExistsException.
SesFaults == {"none", "describe", "create", "update", "delete"}

\* How a PUT to the ResponseURL ends: the response event ends, the request
\* emits 'error', or neither happens.
PutOutcomes == {"end", "error", "silent"}

SesReturn(rule) == [outcome |-> "return", rule |-> rule]

SesThrow(rule) == [outcome |-> "throw", rule |-> rule]

\* createReceiptRule: Describe, then Create unless the rule exists.  `atCreate`
\* is the rule as the Create command finds it: still absent, or written by
\* someone else since the Describe (AlreadyExistsException).
createReceiptRule(rule, props, fault, atCreate) ==
  IF fault = "describe" THEN SesThrow(rule)
  ELSE IF rule # "absent" THEN SesReturn(rule)
  ELSE IF fault = "create" THEN SesThrow(atCreate)
  ELSE IF atCreate # "absent" THEN SesReturn(atCreate)
  ELSE SesReturn(props)

\* updateReceiptRule: Update, and createReceiptRule on RuleDoesNotExistException.
updateReceiptRule(rule, props, fault, atCreate) ==
  IF fault = "update" THEN SesThrow(rule)
  ELSE IF rule = "absent" THEN createReceiptRule(rule, props, fault, atCreate)
  ELSE SesReturn(props)

\* deleteReceiptRule without the catch for RuleDoesNotExistException.
deleteReceiptRule_strict(rule, fault) ==
  IF fault = "delete" \/ rule = "absent" THEN SesThrow(rule)
  ELSE SesReturn("absent")

\* deleteReceiptRule: Delete; RuleDoesNotExistException counts as success.
deleteReceiptRule(rule, fault) ==
  IF fault = "delete" THEN SesThrow(rule)
  ELSE SesReturn("absent")

\* The catch block leaving responseStatus as it was.
responseStatus_keepsSuccess(outcome) == "SUCCESS"

\* responseStatus after the try/catch around the operation.
responseStatus(outcome) == IF outcome = "throw" THEN "FAILED" ELSE "SUCCESS"

CrIdle ==
  [pc |-> "idle", RequestType |-> "Create", props |-> "v1", before |-> "absent",
   fault |-> "none", threw |-> FALSE, status |-> "SUCCESS", sent |-> <<>>]

\* CloudFormation invokes the handler.
CrInvoke(requestType, props) ==
  /\ cr.pc \in {"idle", "done", "hung"}
  /\ cr' = [CrIdle EXCEPT !.pc = "operating", !.RequestType = requestType,
                          !.props = props, !.before = cr.rule] @@ [rule |-> cr.rule]
  /\ UNCHANGED <<callVars, adminVars, mailboxVars, issued, pending>>

\* The try block: the operation of the request type, and the catch.
CrOperate(fault, atCreate) ==
  /\ cr.pc = "operating"
  /\ LET result ==
           CASE cr.RequestType = "Create" ->
                  createReceiptRule(cr.rule, cr.props, fault, atCreate)
             [] cr.RequestType = "Update" ->
                  updateReceiptRule(cr.rule, cr.props, fault, atCreate)
             [] cr.RequestType = "Delete" -> deleteReceiptRule(cr.rule, fault)
     IN cr' = [cr EXCEPT !.pc = "responding", !.rule = result.rule, !.fault = fault,
                         !.threw = (result.outcome = "throw"),
                         !.status = responseStatus(result.outcome)]
  /\ UNCHANGED <<callVars, adminVars, mailboxVars, issued, pending>>

\* The finally block: sendResponse(event, responseStatus, ...) raced against
\* the 55 s timer.
CrSend(put) ==
  /\ cr.pc = "responding"
  /\ cr' = [cr EXCEPT !.sent = Append(@, cr.status),
                      !.pc = IF put = "end" THEN "done" ELSE "retrying"]
  /\ UNCHANGED <<callVars, adminVars, mailboxVars, issued, pending>>

\* The .catch of the race: sendResponse(event, 'FAILED', ...) once more; the
\* handler resolves, rejects, or waits for a PUT that never ends.
CrRetry(put) ==
  /\ cr.pc = "retrying"
  /\ cr' = [cr EXCEPT !.sent = Append(@, "FAILED"),
                      !.pc = IF put = "silent" THEN "hung" ELSE "done"]
  /\ UNCHANGED <<callVars, adminVars, mailboxVars, issued, pending>>

(***************************************************************************)
(* createUser under concurrency: the handler's SELECT and its INSERT are   *)
(* separate statements on a pooled connection, without a transaction, so   *)
(* other requests run between them.  `pending` holds the requests whose    *)
(* SELECT found no record and whose INSERT has not run yet.                *)
(***************************************************************************)

MaxPending == 2

MaxCreated == 2

\* The UNIQUE key on users.email: an INSERT of `email` is accepted only when
\* no row has it.
usersEmailUnique(table, email) == \A u \in table : u.email # email

\* The existence check finding nothing, whatever the table holds.
existingUsers_none(table, email) == {}

\* queryRows('SELECT id FROM users WHERE email = ?')
existingUsers(table, email) == {u \in table : u.email = email}

\* Requests to createUser: from a system admin, from a client user, and
\* without identity.
CreateUserRequests ==
  {[event |-> e, env |-> "prod", format |-> "hybrid"] :
     e \in {HybridEvent("SYSTEM_ADMIN", "entra"), HybridEvent("CLIENT_USER", "local"),
            NoEvent}}

\* createUser from its start to the existence check.
CreateUserSelect(req, input) ==
  LET a == resolve(req)
      env == req.env
      user == a.user
      respond(message, code) ==
        /\ last' = errorResponse("createUser", message, code, user, env)
        /\ UNCHANGED pending
  IN /\ Len(pending) < MaxPending
     /\ UNCHANGED <<callVars, mailboxVars, issued, cr, users, whitelisted_senders,
                    audit_log, nextId>>
     /\ IF a.outcome = "throw" THEN respond("Authentication required", 401)
        ELSE IF requireAdmin(user) # "ok" THEN respond("Admin access required", 403)
        ELSE IF ~input.valid THEN respond("ZodError", 400)
        ELSE IF existingUsers(users, input.email) # {}
          THEN respond("User with this email already exists", 409)
        ELSE /\ pending' = Append(pending, [op |-> "createUser", req |-> req,
                                            input |-> input])
             /\ UNCHANGED last

\* createUser from its INSERT to the response, for the i-th request in
\* progress.
CreateUserInsert(i, dbFail) ==
  LET call == pending[i]
      user == resolve(call.req).user
      env == call.req.env
      input == call.input
      authProvider == getAuthProvider(input.email, input.role)
      userId == nextId.users
      row == [id |-> userId, email |-> input.email,
              password_hash |-> IF authProvider = "local" THEN "bcrypt-hash" ELSE "NULL",
              role |-> input.role, auth_provider |-> authProvider,
              must_change_password |-> (authProvider = "local"),
              is_active |-> TRUE, created_by |-> user.userId,
              entra_oid |-> "NULL", last_login_at |-> "NULL"]
      entry == [actor |-> user.userId, action |-> "USER_CREATED", entity_id |-> userId]
      failed ==
        /\ last' = errorResponse("createUser", "Failed to create user", 500, user, env)
        /\ UNCHANGED audit_log
  IN /\ i \in 1..Len(pending)
     /\ pending' = [k \in 1..(Len(pending) - 1) |->
                      IF k < i THEN pending[k] ELSE pending[k + 1]]
     /\ UNCHANGED <<callVars, mailboxVars, issued, cr, whitelisted_senders>>
     /\ IF dbFail = "write" \/ ~usersEmailUnique(users, input.email)
          THEN failed /\ UNCHANGED <<users, nextId>>
        ELSE /\ nextId.users <= MaxCreated
             /\ users' = users \cup {row}
             /\ nextId' = [nextId EXCEPT !.users = userId + 1]
             /\ IF dbFail = "audit" THEN failed
                ELSE /\ last' = successResponse("createUser", 201, user, env)
                     /\ audit_log' = audit_log \cup {entry}

(***************************************************************************)
(* Specifications                                                          *)
(***************************************************************************)

NoResponse == Response("none", 0, "", NoUser, NoHeaders)

\* No token issued, no createUser request in progress, the custom resource
\* not invoked.
NoOps ==
  /\ issued = IssuedNone
  /\ pending = <<>>
  /\ cr = <<>>

\* The admin tables after db/schema.sql has been applied, before any request.
InitAdminTables ==
  /\ users = {}
  /\ whitelisted_senders = InitialSenders
  /\ audit_log = {}
  /\ nextId = [users |-> 1, whitelisted_senders |-> Cardinality(InitialSenders) + 1,
               user_forwarding_rules |-> 1]
  /\ last = NoResponse

\* The database before any request.
InitTables ==
  /\ InitAdminTables
  /\ user_mailboxes = InitialAssignments
  /\ mailboxes = InitialMailboxes
  /\ email_messages = InitialMessages
  /\ whitelisted_recipients = InitialRecipients
  /\ user_forwarding_rules = {}
  /\ outbox = <<>>

\* No function call is under examination.
NoCalls ==
  /\ match = MatchIdle
  /\ authCall = AuthIdle
  /\ accessCall = AccessIdle
  /\ whitelistCall = WhitelistIdle
  /\ roleCall = RoleIdle
  /\ guardCall = GuardIdle
  /\ gatewayCall = GatewayIdle
  /\ NoOps

\* The admin handlers, each request served in one step.
Init == NoCalls /\ InitTables

Next ==
  \/ \E req \in HandlerRequests, input \in CreateUserInputs, dbFail \in DbFailures :
        CreateUser(req, input, dbFail)
  \/ \E req \in HandlerRequests, domain \in SenderDomainInputs,
        dbFail \in DbFailures \ {"select"} :
        AddWhitelistSender(req, domain, dbFail)
  \/ \E req \in HandlerRequests,
        senderId \in 0..(Cardinality(InitialSenders) + MaxSenders),
        dbFail \in DbFailures \ {"select"} :
        DeleteWhitelistSender(req, senderId, dbFail)

Spec == Init /\ [][Next]_vars

\* matchesDomainPattern applied to every pair of bounded strings.
InitMatch ==
  /\ match \in MatchInputs
  /\ authCall = AuthIdle
  /\ accessCall = AccessIdle
  /\ whitelistCall = WhitelistIdle
  /\ roleCall = RoleIdle
  /\ guardCall = GuardIdle
  /\ gatewayCall = GatewayIdle
  /\ NoOps
  /\ InitTables

NextMatch == MatchCall

SpecMatch == InitMatch /\ [][NextMatch]_vars

\* authenticate applied to every event and environment.
InitAuth ==
  /\ match = MatchIdle
  /\ authCall \in AuthInputs
  /\ accessCall = AccessIdle
  /\ whitelistCall = WhitelistIdle
  /\ roleCall = RoleIdle
  /\ guardCall = GuardIdle
  /\ gatewayCall = GatewayIdle
  /\ NoOps
  /\ InitTables

NextAuth == AuthenticateCall

SpecAuth == InitAuth /\ [][NextAuth]_vars

\* verifyMailboxAccess applied to every identity, mailbox and ownership table.
InitAccess ==
  /\ match = MatchIdle
  /\ authCall = AuthIdle
  /\ accessCall \in AccessInputs
  /\ whitelistCall = WhitelistIdle
  /\ roleCall = RoleIdle
  /\ guardCall = GuardIdle
  /\ gatewayCall = GatewayIdle
  /\ NoOps
  /\ InitTables

NextAccess == VerifyMailboxAccessCall

SpecAccess == InitAccess /\ [][NextAccess]_vars

\* isSenderWhitelisted applied to every bounded address and row order.
InitWhitelist ==
  /\ match = MatchIdle
  /\ authCall = AuthIdle
  /\ accessCall = AccessIdle
  /\ whitelistCall \in WhitelistInputs
  /\ roleCall = RoleIdle
  /\ guardCall = GuardIdle
  /\ gatewayCall = GatewayIdle
  /\ NoOps
  /\ InitTables

NextWhitelist == IsSenderWhitelistedCall

SpecWhitelist == InitWhitelist /\ [][NextWhitelist]_vars

\* The role predicates and guards of auth.ts applied to every identity.
InitRoles ==
  /\ match = MatchIdle
  /\ authCall = AuthIdle
  /\ accessCall = AccessIdle
  /\ whitelistCall = WhitelistIdle
  /\ roleCall \in RoleInputs
  /\ guardCall = GuardIdle
  /\ gatewayCall = GatewayIdle
  /\ NoOps
  /\ InitTables

NextRoles ==
  \/ IsAdminCall
  \/ IsSystemAdminCall
  \/ RequireAdminCall
  \/ RequireSystemAdminCall

SpecRoles == InitRoles /\ [][NextRoles]_vars

\* requireMailboxAccess and getUserMailboxIds applied to every identity and
\* mailbox, over every ownership table and the mailboxes tables enumerated.
InitGuard ==
  /\ match = MatchIdle
  /\ authCall = AuthIdle
  /\ accessCall = AccessIdle
  /\ whitelistCall = WhitelistIdle
  /\ roleCall = RoleIdle
  /\ guardCall \in GuardInputs
  /\ gatewayCall = GatewayIdle
  /\ NoOps
  /\ InitAdminTables
  /\ user_mailboxes \in SUBSET OwnershipRows
  /\ mailboxes \in MailboxTables
  /\ email_messages = InitialMessages
  /\ whitelisted_recipients = InitialRecipients
  /\ user_forwarding_rules = {}
  /\ outbox = <<>>

NextGuard ==
  \/ RequireMailboxAccessCall
  \/ GetUserMailboxIdsCall

SpecGuard == InitGuard /\ [][NextGuard]_vars

\* A request with a bearer token through the token authorizer to a handler's
\* call of authenticate.
InitGateway ==
  /\ match = MatchIdle
  /\ authCall = AuthIdle
  /\ accessCall = AccessIdle
  /\ whitelistCall = WhitelistIdle
  /\ roleCall = RoleIdle
  /\ guardCall = GuardIdle
  /\ gatewayCall \in GatewayInputs
  /\ NoOps
  /\ InitTables

NextGateway ==
  \/ AuthorizerCall
  \/ HandlerAuthenticates

SpecGateway == InitGateway /\ [][NextGateway]_vars

\* The whitelist handlers, requests resolved by either authenticate.
InitWhitelistAdmin == NoCalls /\ InitTables

NextWhitelistAdmin ==
  \/ \E req \in WhitelistRequests, domain \in SenderDomainInputs,
        dbFail \in DbFailures \ {"select"} :
        AddWhitelistSender(req, domain, dbFail)
  \/ \E req \in WhitelistRequests,
        senderId \in 0..(Cardinality(InitialSenders) + MaxSenders),
        dbFail \in DbFailures \ {"select"} :
        DeleteWhitelistSender(req, senderId, dbFail)

SpecWhitelistAdmin == InitWhitelistAdmin /\ [][NextWhitelistAdmin]_vars

\* The mailbox handlers, each request served in one step.
InitMailbox == NoCalls /\ InitTables

NextMailbox ==
  \/ \E req \in MailboxRequests, mailboxId \in MailboxIdParams,
        fault \in Faults \ {"write", "ses"} :
        GetMessages(req, mailboxId, fault)
  \/ \E req \in MailboxRequests, mailboxId \in MailboxIdParams,
        messageId \in MessageIdParams, fault \in Faults \ {"invalid", "write", "ses"} :
        GetMessage(req, mailboxId, messageId, fault)
  \/ \E req \in MailboxRequests, mailboxId \in MailboxIdParams,
        messageId \in MessageIdParams, fault \in Faults \ {"write"} :
        ReplyToMessage(req, mailboxId, messageId, fault)
  \/ \E req \in MailboxRequests, mailboxId \in MailboxIdParams,
        recipientEmail \in RecipientEmails, fault \in Faults \ {"ses"} :
        CreateForwardingRule(req, mailboxId, recipientEmail, fault)
  \/ \E req \in MailboxRequests, fault \in Faults \ {"invalid", "write", "ses"} :
        ListMailboxes(req, fault)

SpecMailbox == InitMailbox /\ [][NextMailbox]_vars

\* The SSO callback over the users tables a deployment can hold.
InitSso ==
  /\ NoCalls
  /\ users \in InitialUserTables
  /\ nextId = [users |-> IF users = {} THEN 1 ELSE 3,
               whitelisted_senders |-> Cardinality(InitialSenders) + 1,
               user_forwarding_rules |-> 1]
  /\ whitelisted_senders = InitialSenders
  /\ audit_log = {}
  /\ last = NoResponse
  /\ user_mailboxes = InitialAssignments
  /\ mailboxes = InitialMailboxes
  /\ email_messages = InitialMessages
  /\ whitelisted_recipients = InitialRecipients
  /\ user_forwarding_rules = {}
  /\ outbox = <<>>

NextSso == \E input \in SsoInputs, fault \in SsoFaults : AuthCallback(input, fault)

SpecSso == InitSso /\ [][NextSso]_vars

\* Reading one message and replying to it, against the tables before any
\* request.
InitReply == NoCalls /\ InitTables

NextReply ==
  \/ \E req \in MailboxRequests, mailboxId \in MailboxIdParams,
        messageId \in MessageIdParams, fault \in Faults \ {"invalid", "write", "ses"} :
        GetMessage(req, mailboxId, messageId, fault)
  \/ \E req \in MailboxRequests, mailboxId \in MailboxIdParams,
        messageId \in MessageIdParams, fault \in Faults \ {"write"} :
        ReplyToMessage(req, mailboxId, messageId, fault)

SpecReply == InitReply /\ [][NextReply]_vars

\* createForwardingRule alone, against the tables before any request.
InitForward == NoCalls /\ InitTables

NextForward ==
  \E req \in MailboxRequests, mailboxId \in MailboxIdParams,
     recipientEmail \in RecipientEmails, fault \in Faults \ {"ses"} :
     CreateForwardingRule(req, mailboxId, recipientEmail, fault)

SpecForward == InitForward /\ [][NextForward]_vars

\* changePassword for a caller whose record is absent, local or SSO.
InitPassword ==
  /\ NoCalls
  /\ users \in InitialPasswordTables
  /\ nextId = [users |-> 8, whitelisted_senders |-> Cardinality(InitialSenders) + 1,
               user_forwarding_rules |-> 1]
  /\ whitelisted_senders = InitialSenders
  /\ audit_log = {}
  /\ last = NoResponse
  /\ user_mailboxes = InitialAssignments
  /\ mailboxes = InitialMailboxes
  /\ email_messages = InitialMessages
  /\ whitelisted_recipients = InitialRecipients
  /\ user_forwarding_rules = {}
  /\ outbox = <<>>

NextPassword ==
  \E req \in PasswordRequests, input \in ChangePasswordInputs, dbFail \in DbFailures :
     \/ ReceiveChangePassword(req, input, dbFail)
     \/ ChangePassword(req, input, dbFail)

SpecPassword == InitPassword /\ [][NextPassword]_vars

\* The custom resource, from any state of the rule in SES.
InitCr ==
  /\ match = MatchIdle
  /\ authCall = AuthIdle
  /\ accessCall = AccessIdle
  /\ whitelistCall = WhitelistIdle
  /\ roleCall = RoleIdle
  /\ guardCall = GuardIdle
  /\ gatewayCall = GatewayIdle
  /\ issued = IssuedNone
  /\ pending = <<>>
  /\ \E rule \in {"absent"} \cup RuleProps : cr = CrIdle @@ [rule |-> rule]
  /\ InitTables

NextCr ==
  \/ \E requestType \in RequestTypes, props \in RuleProps : CrInvoke(requestType, props)
  \/ \E fault \in SesFaults, atCreate \in {"absent"} \cup RuleProps :
        CrOperate(fault, atCreate)
  \/ \E put \in PutOutcomes : CrSend(put)
  \/ \E put \in PutOutcomes : CrRetry(put)

SpecCr == InitCr /\ [][NextCr]_vars

\* The awaited SES operation settles, the race in the finally block settles
\* with the PUT or the timer, and the second PUT is issued at once.
SpecCrFair ==
  /\ SpecCr
  /\ WF_vars(\E fault \in SesFaults, atCreate \in {"absent"} \cup RuleProps :
                CrOperate(fault, atCreate))
  /\ WF_vars(\E put \in PutOutcomes : CrSend(put))
  /\ WF_vars(\E put \in PutOutcomes : CrRetry(put))

\* Concurrent createUser requests against an empty users table.
InitCreate == NoCalls /\ InitTables

NextCreate ==
  \/ \E req \in CreateUserRequests, input \in CreateUserInputs : CreateUserSelect(req, input)
  \/ \E i \in 1..MaxPending, dbFail \in {"none", "write", "audit"} :
        CreateUserInsert(i, dbFail)

SpecCreate == InitCreate /\ [][NextCreate]_vars

(***************************************************************************)
(* Properties                                                              *)
(***************************************************************************)

\* A context or identity field that holds a non-empty value.
Carries(v) == v # Undefined /\ v # ""

\* The identity has role r, in either format.
HasRole(user, r) == user.role = r \/ (user.rolesDefined /\ r \in user.roles)

\* s ends with suffix: some tail of s is the suffix.
HasSuffix(s, suffix) == \E k \in 0..Len(s) : SubSeq(s, k + 1, Len(s)) = suffix

\* C1 (SpecAccess): for every identity whose role is SYSTEM_ADMIN or
\* TEAM_MEMBER and every mailbox id, verifyMailboxAccess returns true and
\* does not query the ownership store, whatever the store would answer.
C1_AdminTierBypassesStore ==
  (accessCall.called /\ (HasRole(accessCall.user, "SYSTEM_ADMIN")
                         \/ HasRole(accessCall.user, "TEAM_MEMBER")))
    => /\ accessCall.result.outcome = "return"
       /\ accessCall.result.value
       /\ ~accessCall.result.queried

\* The authorizer context of the call has the hybrid shape.
HybridShaped(call) ==
  /\ call.event.hasAuthorizer
  /\ Carries(call.event.authorizer.userId)
  /\ Carries(call.event.authorizer.role)
  /\ Carries(call.event.authorizer.authProvider)

\* The authorizer context of the call carries a subject id.
CarriesSubject(call) ==
  /\ call.event.hasAuthorizer
  /\ (Carries(call.event.authorizer.entraId) \/ Carries(call.event.authorizer.principalId))

\* C2 (SpecAuth): for a hybrid-shaped context authenticate returns an
\* identity with the role and the provider of the context, never the legacy
\* default, whatever entraId, principalId and the user id are.
C2_HybridBeforeLegacy ==
  (authCall.called /\ HybridShaped(authCall))
    => /\ authCall.result.outcome = "return"
       /\ authCall.result.via # "legacy"
       /\ authCall.result.user.role = authCall.event.authorizer.role
       /\ authCall.result.user.authProvider = authCall.event.authorizer.authProvider

\* A CLIENT_USER hybrid context with user id "0" that also carries both
\* legacy subject ids has been resolved.
C2_Witness ==
  /\ authCall.called
  /\ HybridShaped(authCall)
  /\ authCall.event.authorizer.userId = "0"
  /\ authCall.event.authorizer.role = "CLIENT_USER"
  /\ Carries(authCall.event.authorizer.entraId)
  /\ Carries(authCall.event.authorizer.principalId)
  /\ authCall.result.user.role = "CLIENT_USER"

\* C3 (SpecAuth): for a context that is not hybrid-shaped but carries entraId
\* or principalId, authenticate returns role SYSTEM_ADMIN, provider 'entra'
\* and that subject id (entraId before principalId) as external subject id.
C3_LegacyDefaultsToSystemAdmin ==
  (authCall.called /\ ~HybridShaped(authCall) /\ CarriesSubject(authCall))
    => LET auth == authCall.event.authorizer
           subject == IF Carries(auth.entraId) THEN auth.entraId ELSE auth.principalId
       IN /\ authCall.result.outcome = "return"
          /\ authCall.result.user.role = "SYSTEM_ADMIN"
          /\ authCall.result.user.authProvider = "entra"
          /\ authCall.result.user.entraId = subject
          /\ authCall.result.user.entraOid = subject

\* A context with a role but no user id, identified by principalId alone,
\* has been resolved through the legacy branch.
C3_Witness ==
  /\ authCall.called
  /\ ~HybridShaped(authCall)
  /\ authCall.event.authorizer.role = "CLIENT_USER"
  /\ ~Carries(authCall.event.authorizer.entraId)
  /\ Carries(authCall.event.authorizer.principalId)
  /\ authCall.result.via = "legacy"
  /\ authCall.result.user.entraId = authCall.event.authorizer.principalId

\* C4 (SpecAuth): the development identity is returned only when ENVIRONMENT
\* is 'local', an Authorization header carries DEV_TOKEN_BYPASS and neither
\* context shape was recognized; when ENVIRONMENT is not 'local', a request
\* without a recognized context is rejected whatever its headers are.
C4_DevBypassOnlyLocal ==
  authCall.called =>
    /\ (authCall.result.via = "dev" \/ authCall.result.user = devIdentity)
         => /\ authCall.env = "local"
            /\ (includesDevToken(authCall.event.Authorization)
                \/ includesDevToken(authCall.event.authorization))
            /\ ~HybridShaped(authCall)
            /\ ~CarriesSubject(authCall)
    /\ (authCall.env # "local" /\ ~HybridShaped(authCall) /\ ~CarriesSubject(authCall))
         => /\ authCall.result.outcome = "throw"
            /\ authCall.result.message = "Unauthorized"

\* A local request whose authorizer context is present but unrecognized has
\* been resolved to the development identity.
C4_Witness ==
  /\ authCall.called
  /\ authCall.event.hasAuthorizer
  /\ authCall.env = "local"
  /\ authCall.result.outcome = "return"
  /\ authCall.result.user = devIdentity

\* C5 (SpecAuth): authenticate throws Unauthorized whenever the context is
\* absent or lacks a role or an email and neither the legacy shape nor the
\* local bypass applies, and it never returns an identity without a role or
\* without an email.
C5_RoleAndEmailRequired ==
  authCall.called =>
    /\ authCall.result.outcome = "return"
         => /\ Carries(authCall.result.user.role)
            /\ Carries(authCall.result.user.email)
    /\ ( /\ \/ ~authCall.event.hasAuthorizer
            \/ ~Carries(authCall.event.authorizer.role)
            \/ ~Carries(authCall.event.authorizer.email)
         /\ ~(~HybridShaped(authCall) /\ CarriesSubject(authCall))
         /\ ~(authCall.env = "local"
              /\ (includesDevToken(authCall.event.Authorization)
                  \/ includesDevToken(authCall.event.authorization))) )
         => /\ authCall.result.outcome = "throw"
            /\ authCall.result.message = "Unauthorized"

\* C6 (Spec): createUser, addWhitelistSender and deleteWhitelistSender change
\* the users or whitelisted_senders table only for a SYSTEM_ADMIN caller.
C6_OnlySystemAdminWrites ==
  [][(users' # users \/ whitelisted_senders' # whitelisted_senders)
       => last'.caller.role = "SYSTEM_ADMIN"]_vars

\* C7 (SpecMatch): for a pattern "*." + b the result is true exactly when the
\* lower-cased sender ends with "." + b and differs from b.
C7_SubdomainWildcard ==
  (match.called /\ Len(match.whitelistPattern) >= 2
     /\ match.whitelistPattern[1] = "*" /\ match.whitelistPattern[2] = ".")
    => LET d == toLowerCase(match.senderDomain)
           b == toLowerCase(SubSeq(match.whitelistPattern, 3, Len(match.whitelistPattern)))
       IN match.result <=> (HasSuffix(d, <<".">> \o b) /\ d # b)

\* "A.a" has been matched against "*.a" (cca.gc.ca against *.gc.ca).
C7_Witness ==
  /\ match.called
  /\ match.whitelistPattern = <<"*", ".", "a">>
  /\ match.senderDomain = <<"A", ".", "a">>
  /\ match.result

\* C8 (SpecMatch): for a pattern "*" + s the result equals
\* lower(d).endsWith(lower(s)), for every s, also one that begins with a dot.
C8_PrefixWildcard ==
  (match.called /\ Len(match.whitelistPattern) >= 1 /\ match.whitelistPattern[1] = "*")
    => LET d == toLowerCase(match.senderDomain)
           s == toLowerCase(Tail(match.whitelistPattern))
       IN match.result <=> HasSuffix(d, s)

\* A suffix that begins with a dot has matched a sender equal to the suffix.
C8_Witness ==
  /\ match.called
  /\ match.whitelistPattern = <<"*", ".", "a">>
  /\ match.senderDomain = <<".", "A">>
  /\ match.result

\* C9 (SpecMatch): the result does not depend on the case of either argument,
\* and for a pattern that does not start with '*' it is true exactly when the
\* lower-cased sender equals the lower-cased pattern.
C9_CaseInsensitiveExact ==
  match.called =>
    /\ match.result = matchesDomainPattern(toUpperCase(match.senderDomain),
                                           toLowerCase(match.whitelistPattern))
    /\ match.result = matchesDomainPattern(toLowerCase(match.senderDomain),
                                           toUpperCase(match.whitelistPattern))
    /\ (match.whitelistPattern = <<>> \/ Head(match.whitelistPattern) # "*")
         => (match.result <=>
               toLowerCase(match.senderDomain) = toLowerCase(match.whitelistPattern))

\* An exact pattern in a different case than the sender has matched.
C9_Witness ==
  /\ match.called
  /\ match.senderDomain = <<"A", ".", "a">>
  /\ match.whitelistPattern = <<"a", ".", "A">>
  /\ match.result

\* C10 as stated (SpecMatch): an empty sender domain is matched by no
\* non-empty pattern.
C10_EmptySenderMatchesNothing ==
  (match.called /\ match.senderDomain = <<>> /\ match.whitelistPattern # <<>>)
    => ~match.result

\* C10 as amended (SpecMatch): the result is always a boolean; an empty
\* sender domain is matched exactly by the empty pattern and by the bare
\* wildcard "*"; the empty pattern matches exactly the empty sender domain.
C10_EmptyInputs ==
  match.called =>
    /\ match.result \in BOOLEAN
    /\ match.senderDomain = <<>>
         => (match.result <=> match.whitelistPattern \in {<<>>, <<"*">>})
    /\ match.whitelistPattern = <<>>
         => (match.result <=> match.senderDomain = <<>>)

\* The empty sender domain has been matched by the bare wildcard.
C10_Witness ==
  /\ match.called
  /\ match.senderDomain = <<>>
  /\ match.whitelistPattern = <<"*">>
  /\ match.result

\* The elements of a sequence.
Range(seq) == {seq[i] : i \in 1..Len(seq)}

\* The part of s after its last occurrence of c.
AfterLast(s, c) ==
  LET at == {i \in 1..Len(s) : s[i] = c}
  IN IF at = {} THEN s
     ELSE SubSeq(s, (CHOOSE i \in at : \A j \in at : j <= i) + 1, Len(s))

\* C11 (SpecWhitelist): for a sender address that contains an '@' and a
\* store that answers, isSenderWhitelisted returns true if and only if at
\* least one stored pattern matches the part of the address after its last
\* '@', and the result is the same for every order of the stored patterns.
C11_WhitelistedIffPatternMatchesLastDomain ==
  (/\ whitelistCall.called
   /\ whitelistCall.storeMode = "ok"
   /\ "@" \in Range(whitelistCall.senderEmail))
    => /\ whitelistCall.result.outcome = "return"
       /\ whitelistCall.result.value =
            (\E p \in Range(whitelistCall.rows) :
               matchesDomainPattern(AfterLast(whitelistCall.senderEmail, "@"), p))
       /\ \A order \in SeqsOf(Range(whitelistCall.rows)) :
            isSenderWhitelisted(whitelistCall.senderEmail, order, "ok").value
              = whitelistCall.result.value

\* C12 (SpecRoles): isAdmin is true exactly when the identity's role is
\* SYSTEM_ADMIN or TEAM_MEMBER; requireAdmin throws exactly when the role is
\* neither (so for CLIENT_USER); and both give the same answer for any two
\* identities with the same role, whatever their other fields.
C12_AdminTierByRoleOnly ==
  LET user == roleCall.user
      adminTier == user.role \in {"SYSTEM_ADMIN", "TEAM_MEMBER"}
  IN /\ roleCall.op = "isAdmin" =>
          /\ roleCall.result = BoolText(adminTier)
          /\ \A other \in RoleUsers :
               other.role = user.role => BoolText(isAdmin(other)) = roleCall.result
     /\ roleCall.op = "requireAdmin" =>
          /\ (roleCall.result = "ok") = adminTier
          /\ (roleCall.result = "Admin access required") = ~adminTier
          /\ \A other \in RoleUsers :
               other.role = user.role => requireAdmin(other) = roleCall.result

\* C12 witness: requireAdmin has thrown for a CLIENT_USER identity.
C12_Witness ==
  /\ roleCall.op = "requireAdmin"
  /\ roleCall.user.role = "CLIENT_USER"
  /\ roleCall.result = "Admin access required"

\* C13 (SpecRoles): isSystemAdmin is true exactly when the identity's role
\* is SYSTEM_ADMIN, and requireSystemAdmin throws exactly when the role is
\* TEAM_MEMBER or CLIENT_USER.
C13_SystemAdminOnly ==
  LET user == roleCall.user
  IN /\ roleCall.op = "isSystemAdmin" =>
          roleCall.result = BoolText(user.role = "SYSTEM_ADMIN")
     /\ roleCall.op = "requireSystemAdmin" =>
          /\ (roleCall.result = "System admin access required")
               = (user.role \in {"TEAM_MEMBER", "CLIENT_USER"})
          /\ (roleCall.result = "ok") = (user.role = "SYSTEM_ADMIN")

\* C13 witness: requireSystemAdmin has thrown for a TEAM_MEMBER identity.
C13_Witness ==
  /\ roleCall.op = "requireSystemAdmin"
  /\ roleCall.user.role = "TEAM_MEMBER"
  /\ roleCall.result = "System admin access required"

\* C14 (SpecAccess): for an identity that is not admin-tier and a store that
\* answers, verifyMailboxAccess returns, and returns true if and only if
\* user_mailboxes holds a row for (the identity's external subject id, the
\* mailbox id).
C14_NonAdminAccessIffOwnershipRecord ==
  (/\ accessCall.called
   /\ accessCall.storeMode = "ok"
   /\ ~HasRole(accessCall.user, "SYSTEM_ADMIN")
   /\ ~HasRole(accessCall.user, "TEAM_MEMBER"))
    => /\ accessCall.result.outcome = "return"
       /\ accessCall.result.value =
            (\E row \in accessCall.user_mailboxes :
               /\ row.entra_user_id = accessCall.user.entraId
               /\ row.mailbox_id = accessCall.mailboxId)

\* The access check of the finished guard call, evaluated on the same
\* identity, mailbox id and store.
GuardAccessCheck ==
  verifyMailboxAccess(guardCall.user, guardCall.mailboxId, user_mailboxes,
                      guardCall.storeMode)

\* C15 (SpecGuard): requireMailboxAccess throws the 'Access denied' error
\* exactly when verifyMailboxAccess returns false, and returns normally
\* exactly when verifyMailboxAccess returns true.
C15_DeniedIffCheckFalse ==
  guardCall.op = "requireMailboxAccess" =>
    /\ (guardCall.result.outcome = "throw" /\ guardCall.result.error = AccessDenied)
         = (GuardAccessCheck.outcome = "return" /\ ~GuardAccessCheck.value)
    /\ (guardCall.result.outcome = "return")
         = (GuardAccessCheck.outcome = "return" /\ GuardAccessCheck.value)

\* C15 witness: the guard has thrown 'Access denied' for an identity whose
\* access check queried the store and found no row.
C15_Witness ==
  /\ guardCall.op = "requireMailboxAccess"
  /\ guardCall.result.outcome = "throw"
  /\ guardCall.result.error = AccessDenied
  /\ GuardAccessCheck.queried
  /\ user_mailboxes # {}

\* C16 (SpecGuard): with a store that answers, getUserMailboxIds returns for
\* an admin-tier identity the ids of all active mailboxes, and for any other
\* identity exactly the mailbox ids assigned to its external subject id,
\* each id once.
C16_AccessibleMailboxIds ==
  (guardCall.op = "getUserMailboxIds" /\ guardCall.storeMode = "ok") =>
    LET ids == guardCall.result.ids
        expected ==
          IF HasRole(guardCall.user, "SYSTEM_ADMIN") \/ HasRole(guardCall.user, "TEAM_MEMBER")
          THEN {m.id : m \in {r \in mailboxes : r.is_active}}
          ELSE {row.mailbox_id :
                  row \in {r \in user_mailboxes : r.entra_user_id = guardCall.user.entraId}}
    IN /\ guardCall.result.outcome = "return"
       /\ Range(ids) = expected
       /\ Len(ids) = Cardinality(expected)

\* C17 (SpecGuard): when the store query of a guard call fails, the guard
\* throws the store's error: not 'Access denied', and no value (false, or an
\* empty list) is returned.
C17_StoreFailurePropagates ==
  /\ (/\ guardCall.op = "requireMailboxAccess"
      /\ guardCall.storeMode = "fail"
      /\ authorize_isSystemAdmin(guardCall.user) = "false")
       => /\ guardCall.result.outcome = "throw"
          /\ guardCall.result.error = "StoreError"
          /\ guardCall.result.error # AccessDenied
  /\ (/\ guardCall.op = "getUserMailboxIds"
      /\ guardCall.storeMode = "fail"
      /\ authorize_isSystemAdmin(guardCall.user) # "TypeError")
       => /\ guardCall.result.outcome = "throw"
          /\ guardCall.result.error = "StoreError"
          /\ guardCall.result.error # AccessDenied

\* C17 witness: requireMailboxAccess has thrown the store's error for an
\* identity whose mapping row exists.
C17_Witness ==
  /\ guardCall.op = "requireMailboxAccess"
  /\ guardCall.storeMode = "fail"
  /\ guardCall.result.outcome = "throw"
  /\ guardCall.result.error = "StoreError"
  /\ mappingRows(guardCall.user, guardCall.mailboxId, user_mailboxes) # {}

\* The handlers that serve mailbox routes.
MailboxOps ==
  {"getMessages", "getMessage", "replyToMessage", "createForwardingRule", "listMailboxes"}

\* C18 (SpecMailbox): in every mailbox handler, a request whose identity
\* could not be resolved is answered 401, a request denied by the mailbox
\* guard is answered 403, and a store failure is answered with a 5xx status.
C18_StatusReflectsErrorClass ==
  last.op \in MailboxOps =>
    /\ last.message \in {"Unauthorized", "No authorization header"} => last.statusCode = 401
    /\ last.message = AccessDenied => last.statusCode = 403
    /\ last.message = "StoreError" => last.statusCode \in 500..599

\* h is a header of the response with the given value.
HasHeader(response, h, value) ==
  h \in DOMAIN response.headers /\ response.headers[h] = value

\* C19 (SpecWhitelistAdmin): every response a handler returns, on success
\* and on every error path, carries X-Content-Type-Options: nosniff,
\* X-Frame-Options: DENY, Strict-Transport-Security and the CORS origin of
\* addSecurityHeaders.
C19_EveryResponseHasSecurityHeaders ==
  last.op # "none" =>
    /\ HasHeader(last, "X-Content-Type-Options", "nosniff")
    /\ HasHeader(last, "X-Frame-Options", "DENY")
    /\ HasHeader(last, "Strict-Transport-Security", "max-age=31536000; includeSubDomains")
    /\ "Access-Control-Allow-Origin" \in DOMAIN last.headers

\* C20 (SpecGateway): for every token the authorizer answers with an Allow
\* policy, a local JWT or an Azure Entra token, authenticate resolves the
\* event built from that policy to an identity with a role and does not
\* throw Unauthorized.
C20_AllowedTokensResolve ==
  gatewayCall.stage = "handled" =>
    /\ gatewayCall.policy.effect = "Allow"
    /\ gatewayCall.token.kind \in {"local", "entra"}
    /\ gatewayCall.result.outcome = "return"
    /\ Carries(gatewayCall.result.user.role)

\* C20 witness: an Entra token without oid and email claims was allowed and
\* its event has been resolved.
C20_Witness ==
  /\ gatewayCall.stage = "handled"
  /\ gatewayCall.token.kind = "entra"
  /\ gatewayCall.token.payload.oid = Undefined
  /\ gatewayCall.token.payload.email = Undefined
  /\ gatewayCall.policy.principalId = "unknown"
  /\ gatewayCall.result.outcome = "return"

\* The ids of the rows of a users table.
UserIds(table) == {u.id : u \in table}

\* A callback that reaches the users table with a staff address nobody has
\* a record for, and whose awaited calls all succeed.
FirstSsoLogin(input, fault) ==
  /\ input.valid
  /\ fault = "none"
  /\ Truthy(input.oid)
  /\ Truthy(Or(input.email, input.preferred_username))
  /\ emailDomain(Or(input.email, input.preferred_username)) = "submanagementgroup.com"
  /\ \A u \in users :
       /\ u.entra_oid # input.oid
       /\ u.email # Or(input.email, input.preferred_username)

\* C21: a first SSO login (valid code, no record for the oid or the email,
\* staff domain) creates exactly one user record, with role TEAM_MEMBER,
\* provider 'entra' and that oid, and the access token and user object it
\* returns carry the id and email of that new record.
C21_FirstLoginIdentifiesNewRecord ==
  [][\A input \in SsoInputs, fault \in SsoFaults :
       (FirstSsoLogin(input, fault) /\ AuthCallback(input, fault)) =>
         /\ Cardinality(UserIds(users') \ UserIds(users)) = 1
         /\ \E r \in users' :
              /\ r.id \notin UserIds(users)
              /\ r.role = "TEAM_MEMBER"
              /\ r.auth_provider = "entra"
              /\ r.entra_oid = input.oid
              /\ issued'.tokens
              /\ issued'.userId = r.id
              /\ issued'.email = r.email]_vars

\* The three refusals of the callback: 403 inactive, 400 local account,
\* 404 unknown account outside the staff domain.
SsoRejected(response) ==
  /\ response.op = "authCallback"
  /\ \/ response.statusCode \in {403, 404}
     \/ /\ response.statusCode = 400
        /\ response.message =
             "This account uses local authentication. Please use the email/password login."

\* C30: a rejected callback issues no tokens and leaves the users table as
\* it was: no record created, no entra_oid and no last_login_at written.
C30_RejectedCallbackChangesNothing ==
  [][\A input \in SsoInputs, fault \in SsoFaults :
       (AuthCallback(input, fault) /\ SsoRejected(last')) =>
         /\ issued' = IssuedNone
         /\ users' = users]_vars

\* C24: every record createUser created has auth_provider 'entra' exactly
\* when its email domain is submanagementgroup.com or its role is
\* SYSTEM_ADMIN or TEAM_MEMBER, and has a password hash and the
\* must_change_password flag exactly when its auth_provider is 'local'.
C24_ProviderAndPasswordByDomainAndRole ==
  \A u \in users :
    /\ u.auth_provider \in {"entra", "local"}
    /\ u.auth_provider = "entra" <=>
         \/ emailDomain(u.email) = "submanagementgroup.com"
         \/ u.role \in {"SYSTEM_ADMIN", "TEAM_MEMBER"}
    /\ u.password_hash # "NULL" <=> u.auth_provider = "local"
    /\ u.must_change_password <=> u.auth_provider = "local"

C24_Witness ==
  /\ last.op = "createUser"
  /\ last.statusCode = 201
  /\ \E u \in users :
       /\ u.auth_provider = "local"
       /\ u.password_hash # "NULL"
       /\ u.must_change_password

\* The checks replyToMessage makes before it sends: the caller is
\* authenticated, the access check passes for the path mailbox, the body is
\* valid, and the message is a message of that mailbox.
ReplyChecksPass(req, mailboxId, messageId, fault) ==
  /\ resolve(req).outcome # "throw"
  /\ LET hasAccess == verifyMailboxAccess(resolve(req).user, mailboxId, user_mailboxes,
                                          storeModeOf(fault))
     IN hasAccess.outcome = "return" /\ hasAccess.value
  /\ fault # "invalid"
  /\ \E m \in email_messages : m.id = messageId /\ m.mailbox_id = mailboxId

\* C26: replyToMessage sends the email only after authentication, the
\* mailbox access check, body validation and the message lookup in the path
\* mailbox all succeeded; if any of them fails no email is sent and no
\* SEND_REPLY audit entry is written.
C26_ReplyOnlyAfterAllChecks ==
  [][last'.op = "replyToMessage" =>
       \A req \in MailboxRequests, mailboxId \in MailboxIdParams,
          messageId \in MessageIdParams, fault \in Faults :
         (ReplyToMessage(req, mailboxId, messageId, fault)
            /\ ~ReplyChecksPass(req, mailboxId, messageId, fault)) =>
           /\ outbox' = outbox
           /\ audit_log' = audit_log
           /\ last'.statusCode # 200]_vars

C26_Witness ==
  /\ last.op = "replyToMessage"
  /\ last.statusCode = 200
  /\ outbox # <<>>
  /\ \E e \in audit_log : e.action = "SEND_REPLY"

\* The caller of createForwardingRule is authenticated and the access check
\* passes for the path mailbox.
ForwardAccessPasses(req, mailboxId, fault) ==
  /\ resolve(req).outcome # "throw"
  /\ LET hasAccess == verifyMailboxAccess(resolve(req).user, mailboxId, user_mailboxes,
                                          storeModeOf(fault))
     IN hasAccess.outcome = "return" /\ hasAccess.value

\* C27: createForwardingRule inserts a rule only when the caller has access
\* to the mailbox and the recipient is in whitelisted_recipients; otherwise
\* it answers with an error (403 when the recipient is not whitelisted) and
\* no rule is created.
C27_RuleOnlyForWhitelistedRecipient ==
  [][last'.op = "createForwardingRule" =>
       \A req \in MailboxRequests, mailboxId \in MailboxIdParams,
          recipientEmail \in RecipientEmails, fault \in Faults :
         CreateForwardingRule(req, mailboxId, recipientEmail, fault) =>
           /\ (~ForwardAccessPasses(req, mailboxId, fault)
                 \/ recipientEmail \notin whitelisted_recipients) =>
                /\ user_forwarding_rules' = user_forwarding_rules
                /\ last'.statusCode >= 400
           /\ (/\ ForwardAccessPasses(req, mailboxId, fault)
               /\ mailboxId # 0
               /\ fault \notin {"invalid", "select"}
               /\ recipientEmail \notin whitelisted_recipients) =>
                last'.statusCode = 403
           /\ \A rule \in user_forwarding_rules' \ user_forwarding_rules :
                /\ rule.mailbox_id = mailboxId
                /\ rule.recipient_email = recipientEmail]_vars

C27_Witness ==
  /\ last.op = "createForwardingRule"
  /\ last.statusCode = 201
  /\ \E rule \in user_forwarding_rules : rule.recipient_email \in whitelisted_recipients

\* The token of the call verifies as a local JWT.
LocalVerified ==
  /\ gatewayCall.token.present
  /\ gatewayCall.token.kind = "local"
  /\ gatewayCall.token.verifies
  /\ gatewayCall.config.jwtSecret

\* The token of the call verifies as an Entra token.
EntraVerified ==
  /\ gatewayCall.token.present
  /\ gatewayCall.token.kind = "entra"
  /\ gatewayCall.token.verifies
  /\ gatewayCall.config.entra

\* C23: the authorizer answers Allow only when the token verifies as a
\* local JWT or, local verification having failed, as an Entra token; in
\* every other case (no token, both verifications failing, any exception)
\* it answers the Deny policy for principal 'unauthorized'.
C23_AllowOnlyVerifiedTokens ==
  gatewayCall.stage # "request" =>
    /\ gatewayCall.policy.effect \in {"Allow", "Deny"}
    /\ gatewayCall.policy.effect = "Allow" => (LocalVerified \/ (~LocalVerified /\ EntraVerified))
    /\ ~(LocalVerified \/ EntraVerified) => gatewayCall.policy = DenyPolicy
    /\ gatewayCall.policy.effect = "Deny" => gatewayCall.policy.principalId = "unauthorized"

C23_Witness ==
  /\ gatewayCall.stage = "denied"
  /\ gatewayCall.token.kind = "local"
  /\ gatewayCall.token.verifies
  /\ ~gatewayCall.config.jwtSecret
  /\ gatewayCall.policy = DenyPolicy

\* A password meeting the strength rules: 12 to 128 characters with an
\* uppercase letter, a lowercase letter, a digit and a special character.
StrongPassword(password) ==
  /\ Len(password) >= 12
  /\ Len(password) <= 128
  /\ \E i \in 1..Len(password) : password[i] \in UpperCase
  /\ \E i \in 1..Len(password) : password[i] \in LowerCase
  /\ \E i \in 1..Len(password) : password[i] \in Digit
  /\ \E i \in 1..Len(password) : password[i] \in Special

\* The caller of the request has a record, it uses local authentication,
\* the current password verifies against it, and the new password is strong
\* and does not verify against it.
MayChangePassword(call) ==
  /\ resolve(call.req).outcome = "return"
  /\ \E u \in users :
       /\ ToString(u.id) = resolve(call.req).user.userId
       /\ u.auth_provider = "local"
       /\ verifyPassword(call.input.currentPassword, u.password_hash)
       /\ StrongPassword(call.input.newPassword)
       /\ ~verifyPassword(call.input.newPassword, u.password_hash)

\* C25: changePassword replaces the password hash only when the caller's
\* record exists, uses local authentication, the current password verifies
\* and the new password passes validatePasswordStrength and differs from
\* the current one; it then also clears must_change_password, and only the
\* caller's record changes; on every other outcome the table is unchanged.
C25_HashReplacedOnlyAfterAllChecks ==
  [][(pending # <<>> /\ pending' = <<>> /\ Head(pending).op = "changePassword") =>
       LET call == Head(pending)
       IN /\ ~MayChangePassword(call) => users' = users
          /\ users' # users =>
               \A u \in users :
                 IF ToString(u.id) = resolve(call.req).user.userId
                   THEN [u EXCEPT !.password_hash = hashPassword(call.input.newPassword),
                                  !.must_change_password = FALSE] \in users'
                   ELSE u \in users'
          /\ last'.statusCode = 200 => users' # users]_vars

C25_Witness ==
  /\ last.op = "changePassword"
  /\ last.statusCode = 200
  /\ \E u \in users :
       /\ u.password_hash = hashPassword(PwStrong)
       /\ ~u.must_change_password

\* C22: the custom resource always answers CloudFormation.  Whatever the
\* request type, and whether the SES operation returns or throws, a response
\* is sent to the ResponseURL: one has been sent when the handler finishes,
\* every invocation leads to one being sent, and every response of an
\* invocation whose SES operation threw has status FAILED.
C22_AlwaysAnswersCloudFormation ==
  /\ [](cr.pc \in {"done", "hung"} => cr.sent # <<>>)
  /\ [](cr.threw => \A i \in 1..Len(cr.sent) : cr.sent[i] = "FAILED")
  /\ (cr.pc = "operating") ~> (cr.sent # <<>>)

C22_Witness ==
  /\ cr.pc = "done"
  /\ cr.threw
  /\ cr.sent = <<"FAILED">>

\* C28: the receipt-rule operations are idempotent.  From any prior state
\* of the rule, a Create or Update that reports SUCCESS leaves the rule
\* present and a Delete that reports SUCCESS leaves it absent; Create on an
\* existing rule and Delete on a missing one succeed, and Update on a
\* missing rule creates it.
C28_OperationsIdempotent ==
  cr.pc \in {"responding", "retrying", "done", "hung"} =>
    /\ (cr.status = "SUCCESS" /\ cr.RequestType \in {"Create", "Update"}) =>
         cr.rule # "absent"
    /\ (cr.status = "SUCCESS" /\ cr.RequestType = "Delete") => cr.rule = "absent"
    /\ (cr.RequestType = "Create" /\ cr.before # "absent" /\ cr.fault # "describe") =>
         (cr.status = "SUCCESS" /\ cr.rule = cr.before)
    /\ (cr.RequestType = "Delete" /\ cr.before = "absent" /\ cr.fault # "delete") =>
         cr.status = "SUCCESS"
    /\ (cr.RequestType = "Update" /\ cr.before = "absent"
          /\ cr.fault \notin {"update", "describe", "create"}) =>
         (cr.status = "SUCCESS" /\ cr.rule # "absent")

C28_Witness ==
  /\ cr.pc = "done"
  /\ cr.RequestType = "Delete"
  /\ cr.before = "absent"
  /\ cr.sent = <<"SUCCESS">>
  /\ cr.rule = "absent"

====
